---- MODULE Spec2Model ----
(***************************************************************************)
(* Rate aggregation and change propagation of final_todo:                  *)
(*   app/tasks/poller.py    fetch_cbr, fetch_binance, Poller               *)
(*   app/ws/manager.py      ConnectionManager                              *)
(*   app/nats/publisher.py  NatsPublisher.publish                          *)
(*   app/nats/subscriber.py on_message                                     *)
(*   app/api/items.py       create_item, run_task, ws_items                *)
(*                                                                         *)
(* Rates are Python floats in the program.  Here a rate is a fixed-point   *)
(* decimal [w, n]: w whole units and n billionths (0 <= n < NanoPerUnit),  *)
(* so that the comparison against 1e-9 is exact.                           *)
(***************************************************************************)
EXTENDS Integers, Sequences, FiniteSets, TLC

\* ------------------------------------------------------------------ bounds
\* Change events (commits of a pass or of create_item) one run may produce.
MaxEvents == 4
\* Injected failures (storage, send, publish, upstream) one run may suffer.
MaxFaults == 2

\* --------------------------------------------------------- fixed-point rates
NanoPerUnit == 1000000000
\* 1e-9 in billionths
EPS == 1

Rate(w, n) == [w |-> w, n |-> n]

Abs(x) == IF x < 0 THEN -x ELSE x

\* abs(a - b) in billionths, saturated at 2 units (enough to compare to EPS)
AbsDiff(a, b) ==
    LET dw == a.w - b.w
    IN  IF dw >= 2 \/ dw <= -2
        THEN 2 * NanoPerUnit
        ELSE Abs(dw * NanoPerUnit + (a.n - b.n))

\* k * r for a whole number k
RateTimes(k, r) ==
    LET t == k * r.n
    IN  Rate(k * r.w + (t \div NanoPerUnit), t % NanoPerUnit)

\* v / k for a whole number k >= 1
RateDiv(v, k) ==
    LET rem == (v.w % k) * NanoPerUnit + v.n
    IN  Rate(v.w \div k, rem \div k)

\* ------------------------------------------------------------ configuration
\* An optional value is a sequence of length at most one.
None == << >>
Some(x) == << x >>

\* app.config: watch-lists and provenance labels
MONEY == {"USD"}
CRYPTO_CODES == <<"BTC", "ETH">>
CBR_SOURCE == "CBR"
CRYPTO_SOURCE == "Binance"

InCrypto(code) == \E i \in 1..Len(CRYPTO_CODES) : CRYPTO_CODES[i] = code

\* ------------------------------------------------------------------ dicts
\* A Python dict: its keys in insertion order and its mapping.
EmptyDict == [ks |-> << >>, v |-> << >>]

HasKey(d, k) == \E i \in 1..Len(d.ks) : d.ks[i] = k

\* d[k] = x
DictSet(d, k, x) ==
    IF HasKey(d, k)
    THEN [d EXCEPT !.v = [j \in DOMAIN d.v |-> IF j = k THEN x ELSE d.v[j]]]
    ELSE [ks |-> Append(d.ks, k),
          v  |-> [j \in (DOMAIN d.v) \cup {k} |-> IF j = k THEN x ELSE d.v[j]]]

\* d.update(e)
RECURSIVE DictUpdateFrom(_, _, _)
DictUpdateFrom(d, e, i) ==
    IF i > Len(e.ks) THEN d
    ELSE DictUpdateFrom(DictSet(d, e.ks[i], e.v[e.ks[i]]), e, i + 1)

DictUpdate(d, e) == DictUpdateFrom(d, e, 1)

Info(rate, nominal, source) == [rate |-> rate, nominal |-> nominal, source |-> source]

\* --------------------------------------------------------- upstream sources
\* One Valute element of the bank's XML: its CharCode, its Value (Some parsed
\* decimal, or None when float() rejects the text) and its Nominal (a number,
\* or 0 when the element is missing or int() rejects the text).
Valute(code, value, nominal) == [CharCode |-> code, Value |-> value, Nominal |-> nominal]

\* parse_cbr_xml's own source label, a Cyrillic literal (transliterated here)
PARSED_SOURCE == "TsB RF"

RECURSIVE ParseFrom(_, _, _, _)
ParseFrom(content, wanted, i, result) ==
    IF i > Len(content) THEN result
    ELSE LET val == content[i]
             nominal == IF val.Nominal = 0 THEN 1 ELSE val.Nominal
         IN  IF val.CharCode \notin wanted \/ val.Value = None
             THEN ParseFrom(content, wanted, i + 1, result)
             ELSE ParseFrom(content, wanted, i + 1,
                    DictSet(result, val.CharCode,
                            Info(RateDiv(val.Value[1], nominal), nominal, PARSED_SOURCE)))

parse_cbr_xml(content, wanted) == ParseFrom(content, wanted, 1, EmptyDict)

FallbackRates == DictSet(EmptyDict, "RUB", Info(Rate(1, 0), 1, CBR_SOURCE))

\* fetch_cbr: resp is the outcome of client.get
fetch_cbr(resp, wanted) ==
    IF resp.kind = "exc" THEN FallbackRates
    ELSE IF resp.status # 200 THEN FallbackRates
    ELSE DictUpdate(FallbackRates, parse_cbr_xml(resp.content, wanted))

\* what one answer of Binance makes of its symbol in both adapters: "skip" is
\* a "continue" (transport error, status, response.json() raising, no "price"
\* key, float() raising), "raise" is the TypeError of '"price" not in data' on a
\* body that is JSON but no container (null, a number), which no try encloses
SymbolOutcome(r) ==
    IF r.kind # "ok" THEN "skip"
    ELSE IF r.status # 200 THEN "skip"
    ELSE IF r.body = "notjson" THEN "skip"
    ELSE IF r.body = "null" THEN "raise"
    ELSE IF r.body = "noprice" THEN "skip"
    ELSE IF r.body = "badprice" THEN "skip"
    ELSE "entry"

\* the call raises: the loop over the symbols is left at the first such answer
fetch_binance_raises(symbols, resps) ==
    \E i \in 1..Len(symbols) : SymbolOutcome(resps[symbols[i]]) = "raise"

\* fetch_binance: resps[sym] is the outcome of client.get for sym's pair
RECURSIVE BinanceFrom(_, _, _, _, _)
BinanceFrom(symbols, usd_rub_rate, resps, i, result) ==
    IF i > Len(symbols) THEN result
    ELSE LET sym == symbols[i]
             r == resps[sym]
         IN  IF SymbolOutcome(r) # "entry"
             THEN BinanceFrom(symbols, usd_rub_rate, resps, i + 1, result)
             ELSE BinanceFrom(symbols, usd_rub_rate, resps, i + 1,
                    DictSet(result, sym,
                            Info(RateTimes(r.price, usd_rub_rate), 1, CRYPTO_SOURCE)))

fetch_binance(symbols, usd_rub_rate, resps) ==
    BinanceFrom(symbols, usd_rub_rate, resps, 1, EmptyDict)

DefaultUsdRub == Rate(80, 0)

\* run_once, up to the call of process_and_store: the merged map
Combined(cbrResp, binResps) ==
    LET rates == fetch_cbr(cbrResp, MONEY)
        usd_rub == IF HasKey(rates, "USD") THEN rates.v["USD"].rate ELSE DefaultUsdRub
        crypto == fetch_binance(CRYPTO_CODES, usd_rub, binResps)
    IN  DictUpdate(DictUpdate(EmptyDict, rates), crypto)

\* ---------------------------------------------------- services/parser.py
\* the entry get_exchange_rates_for_date_sync writes for the base currency
LegacyBase == DictSet(EmptyDict, "RUB", Info(Rate(80, 0), 80, CBR_SOURCE))

\* get_exchange_rates_for_date_sync: c is the module's cache, d the formatted
\* date, resp the outcome of requests.get; the result and the cache it leaves
get_exchange_rates_for_date_sync(c, d, resp) ==
    IF c[d] # None THEN [rates |-> c[d][1], cache |-> c]
    ELSE LET rates == IF resp.kind = "exc" THEN LegacyBase
                      ELSE IF resp.status # 200 THEN LegacyBase
                      ELSE DictUpdate(LegacyBase, parse_cbr_xml(resp.content, MONEY))
         IN  [rates |-> rates, cache |-> [c EXCEPT ![d] = Some(rates)]]

\* get_crypto_rates_from_binance: resps[sym] is the outcome of requests.get
RECURSIVE LegacyBinanceFrom(_, _, _, _, _)
LegacyBinanceFrom(symbols, usd_rub_rate, resps, i, result) ==
    IF i > Len(symbols) THEN result
    ELSE LET sym == symbols[i]
             r == resps[sym]
         IN  IF SymbolOutcome(r) # "entry"
             THEN LegacyBinanceFrom(symbols, usd_rub_rate, resps, i + 1, result)
             ELSE LegacyBinanceFrom(symbols, usd_rub_rate, resps, i + 1,
                    DictSet(result, sym,
                            Info(RateTimes(r.price, usd_rub_rate), 80, CRYPTO_SOURCE)))

get_crypto_rates_from_binance(symbols, usd_rub_rate, resps) ==
    LegacyBinanceFrom(symbols, usd_rub_rate, resps, 1, EmptyDict)

\* poll_loop: "usd_rub = 8.0"
LegacyDefaultUsdRub == Rate(8, 0)

\* poll_loop: combined.update(rates); combined.update(crypto)
LegacyCombined(rates, binResps) ==
    LET usd_rub == IF HasKey(rates, "USD") THEN rates.v["USD"].rate
                   ELSE LegacyDefaultUsdRub
        crypto == get_crypto_rates_from_binance(CRYPTO_CODES, usd_rub, binResps)
    IN  DictUpdate(DictUpdate(EmptyDict, rates), crypto)

\* ------------------------------------------------- upstream answers explored
UsdQuotes == {Rate(90, 500000000), Rate(90, 500000001), Rate(90, 500000002)}

CbrDoc(q) == << Valute("EUR", Some(Rate(99, 0)), 1), Valute("USD", Some(q), 1) >>

CbrResponses ==
    {[kind |-> "exc", status |-> 0, content |-> << >>]}
    \cup {[kind |-> "ok", status |-> 200, content |-> CbrDoc(q)] : q \in UsdQuotes}

BinanceResponses ==
    {[kind |-> "ok", status |-> 200, body |-> "price", price |-> 2],
     [kind |-> "ok", status |-> 500, body |-> "notjson", price |-> 0]}

\* the bank quoting USD per 1 unit, and per 2 units at a rate 1e-9 higher
RequotedCbr ==
    {[kind |-> "ok", status |-> 200, content |-> CbrDoc(Rate(90, 500000000))],
     [kind |-> "ok", status |-> 200,
      content |-> << Valute("USD", Some(Rate(181, 2)), 2) >>]}

\* the bank quoting USD per 2 units at 90.500000002
ShiftedCbr ==
    {[kind |-> "ok", status |-> 200,
      content |-> << Valute("USD", Some(Rate(181, 4)), 2) >>]}

\* the bank is unreachable, or answers with an error status
CbrFailures ==
    {[kind |-> "exc", status |-> 0, content |-> << >>],
     [kind |-> "ok", status |-> 503, content |-> << >>]}

\* every way the lookup of one symbol's price ends
BinanceOutcomes ==
    BinanceResponses
    \cup {[kind |-> "exc", status |-> 0, body |-> "notjson", price |-> 0]}
    \cup {[kind |-> "ok", status |-> 200, body |-> b, price |-> 0] :
             b \in {"notjson", "null", "noprice", "badprice"}}

\* ------------------------------------------------------------------- state
WS == {"w1", "w2"}
Passes == {"loop", "api"}
Procs == {"loop", "api", "sub", "crud"}
EvIds == 1..MaxEvents

VARIABLES
    items,        \* the rows of table "items"
    clock,        \* datetime.utcnow(), as the number of stamped commits so far
    active,       \* ConnectionManager.active
    has_clients,  \* ConnectionManager._has_clients
    wsState,      \* each socket's ws_items handler: "new", "open", "closed"
    bus,          \* messages on subject items.updates not yet handed to on_message
    pc,           \* where each coroutine is suspended
    combined,     \* process_and_store's argument, per pass
    todo,         \* the codes of combined.items() not yet processed, per pass
    found,        \* the id of the row the coroutine holds (item / new), if any
    payload,      \* the message being sent (payload / data), per coroutine
    snap,         \* broadcast: list(self.active)
    sent,         \* broadcast: the sockets whose send_json returned
    bad,          \* broadcast: the sockets whose send_json raised
    task,         \* Poller._task: "None", "pending" or "done"
    cancelReq,    \* the loop task has a cancellation pending
    stopPc,       \* Poller.stop: "idle" or "await"
    stray,        \* loop tasks apart from Poller._task: the one stop() awaits
                  \*   once start() has replaced it, and one nobody refers to
    response,     \* the last answer of POST /tasks/run (api) and POST /items (crud)
    lastExc,      \* history: the loop's latest pass ended in run_once's except
    waited,       \* history: create_item's latest call of manager.wait_for_clients
    upstream,     \* history: the answers the latest fetch of each pass got
    legacy,       \* services/parser.py: its date cache and poll_loop's locals
    peer,         \* a second instance on the same subject: its table and inbox
    nEvents,      \* history: change events produced so far
    faults,       \* history: injected failures so far
    delivered,    \* history: delivered[w][e], sends of event e that reached w
    published,    \* history: published[e], bus messages carrying event e
    stable,       \* history: the merged map of a pass that completed cleanly,
                  \*          while nobody has changed a row since
    clean         \* history: per pass, no failure and no foreign write so far

vars == << items, clock, active, has_clients, wsState, bus, pc, combined, todo,
           found, payload, snap, sent, bad, task, cancelReq, stopPc, stray, response,
           lastExc, waited, upstream, legacy, peer, nEvents, faults, delivered,
           published, stable, clean >>

regVars == << active, has_clients, wsState >>
bcastVars == << snap, sent, bad >>
schedVars == << task, cancelReq, stopPc, stray >>

NoPayload == [type |-> "none", item |-> << >>, ev |-> 0]

\* the dates poll_loop may ask the bank for
Dates == {"d1", "d2"}

\* the threads asyncio.to_thread runs get_exchange_rates_for_date_sync on
Threads == {"t1", "t2"}

\* a thread outside the function: the date and the result of its latest call
NoCall == [pc |-> "out", d |-> "d1", ret |-> None]

\* parser.py before poll_loop runs: "cache: Dict[str, Dict] = {}"
NoLegacy ==
    [pc |-> "off", cache |-> [d \in Dates |-> None], asked |-> None,
     rates |-> EmptyDict, combined |-> EmptyDict,
     calls |-> [t \in Threads |-> NoCall]]

\* every loop task made so far is, or was, Poller._task
NoStray == [swapped |-> FALSE, orphan |-> FALSE]

\* no second instance has subscribed
NoPeer == [on |-> FALSE, items |-> {}, inbox |-> << >>, codes |-> {}]

Init ==
    /\ items = {}
    /\ clock = 0
    /\ active = {}
    /\ has_clients = FALSE
    /\ wsState = [w \in WS |-> "new"]
    /\ bus = << >>
    /\ pc = [p \in Procs |-> "idle"]
    /\ combined = [p \in Passes |-> EmptyDict]
    /\ todo = [p \in Passes |-> << >>]
    /\ found = [p \in Procs |-> None]
    /\ payload = [p \in Procs |-> NoPayload]
    /\ snap = [p \in Procs |-> {}]
    /\ sent = [p \in Procs |-> {}]
    /\ bad = [p \in Procs |-> {}]
    /\ task = "None"
    /\ cancelReq = FALSE
    /\ stopPc = "idle"
    /\ stray = NoStray
    /\ response = [h \in {"api", "crud"} |-> "none"]
    /\ lastExc = FALSE
    /\ waited = [result |-> "none", registered |-> {}, ev |-> 0]
    /\ upstream = [p \in Passes |-> None]
    /\ legacy = NoLegacy
    /\ peer = NoPeer
    /\ nEvents = 0
    /\ faults = 0
    /\ delivered = [w \in WS |-> [e \in EvIds |-> 0]]
    /\ published = [e \in EvIds |-> 0]
    /\ stable = None
    /\ clean = [p \in Passes |-> FALSE]

\* --------------------------------------------------------------- the table
\* select(ItemModel).where(ItemModel.code == code) ... scalar_one_or_none()
SelectByCode(rows, code) ==
    IF \E r \in rows : r.code = code
    THEN Some(CHOOSE r \in rows : r.code = code)
    ELSE None

\* the reference a coroutine keeps to the row it loaded
Ref(item) == IF item = None THEN None ELSE Some(item[1].id)

NewId(rows) == Cardinality(rows) + 1

\* ItemModel(...) as inserted by commit: id from the sequence, updated_at from
\* default_factory
NewRow(rows, code, title, rate, nominal, source, is_crypto, at) ==
    [id |-> NewId(rows), code |-> code, title |-> title, rate |-> rate,
     nominal |-> nominal, source |-> source, is_crypto |-> is_crypto,
     updated_at |-> at]

\* a column with no unique index: no insert is refused
NoConstraint(rows, code) == FALSE

\* Column(String, nullable=False, unique=True)
UniqueViolation(rows, code) == \E r \in rows : r.code = code

\* the row with this id as it is stored now (db.refresh)
RowById(rows, id) == CHOOSE r \in rows : r.id = id

ReplaceRow(rows, id, new) == {r \in rows : r.id # id} \cup {new}

\* the public fields a pass puts in its payload
ItemFields(r) ==
    [code |-> r.code, rate |-> r.rate, nominal |-> r.nominal,
     source |-> r.source, is_crypto |-> r.is_crypto]

\* ------------------------------------------------------ history bookkeeping
Fault == faults < MaxFaults /\ faults' = faults + 1
NoFault == faults' = faults

\* a commit by `writer` left the table as `rows`
Wrote(writer, rows) ==
    /\ stable' = IF rows = items THEN stable ELSE None
    /\ clean' = [q \in Passes |-> clean[q] /\ (q = writer \/ rows = items)]

\* -------------------------------------------------------- ConnectionManager
\* ws_items: manager.connect(ws)
Connect(w) ==
    /\ wsState[w] = "new"
    /\ wsState' = [wsState EXCEPT ![w] = "open"]
    /\ active' = active \cup {w}
    /\ has_clients' = TRUE
    /\ UNCHANGED << items, clock, bus, pc, combined, todo, found, payload,
                    bcastVars, schedVars, response, lastExc, waited, upstream, legacy, peer, nEvents,
                    faults, delivered, published, stable, clean >>

\* ws_items: receive_text raised, finally manager.disconnect(ws)
Disconnect(w) ==
    /\ wsState[w] = "open"
    /\ wsState' = [wsState EXCEPT ![w] = "closed"]
    /\ active' = active \ {w}
    /\ UNCHANGED << items, clock, has_clients, bus, pc, combined, todo, found,
                    payload, bcastVars, schedVars, response, lastExc, waited, upstream, legacy, peer,
                    nEvents, faults, delivered, published, stable, clean >>

\* a broadcast that walks the registry itself instead of a copy of it
RemainingLive(snapshot, sentSet, badSet) == active \ (sentSet \cup badSet)

\* broadcast: the sockets of the snapshot still to be sent to
Remaining(snapshot, sentSet, badSet) == snapshot \ (sentSet \cup badSet)

\* broadcast: "for ws in list(self.active)" has run out
BroadcastDone(snapshot, sentSet, badSet) == Remaining(snapshot, sentSet, badSet) = {}

\* a broadcast that forgets to drop the sockets that failed
EvictNone(act, badSet) == act

\* broadcast: for ws in bad: self.disconnect(ws)
Evict(act, badSet) == act \ badSet

\* broadcast: "if not self.active: return"
BroadcastSkips(act) == act = {}

\* a handler that publishes what it has broadcast, as a pass does
AfterBroadcastPublishes(p) == "publish"

\* where a coroutine goes on when its broadcast has returned
AfterBroadcast(p) == IF p = "sub" THEN "idle" ELSE "publish"

\* on_message has returned: its locals are gone
SubReturns ==
    /\ payload' = [payload EXCEPT !["sub"] = NoPayload]
    /\ found' = [found EXCEPT !["sub"] = None]

\* broadcast(message) up to its first send_json: the early return on an empty
\* registry, else the snapshot
BeginBroadcast(p) ==
    IF BroadcastSkips(active)
    THEN /\ pc' = [pc EXCEPT ![p] = AfterBroadcast(p)]
         /\ UNCHANGED bcastVars
    ELSE /\ pc' = [pc EXCEPT ![p] = "send"]
         /\ snap' = [snap EXCEPT ![p] = active]
         /\ sent' = [sent EXCEPT ![p] = {}]
         /\ bad' = [bad EXCEPT ![p] = {}]

\* on_message calls manager.broadcast(data)
SubBroadcast ==
    /\ BeginBroadcast("sub")
    /\ IF BroadcastSkips(active) THEN SubReturns ELSE UNCHANGED << payload, found >>

\* broadcast: one await ws.send_json(data); after the last one the eviction
Send(p, w, ok) ==
    /\ pc[p] = "send"
    /\ p = "loop" => ~cancelReq
    /\ w \in Remaining(snap[p], sent[p], bad[p])
    /\ IF ok THEN wsState[w] = "open" /\ NoFault
             ELSE IF wsState[w] = "open" THEN Fault ELSE NoFault
    /\ delivered' = IF ok
                    THEN [delivered EXCEPT ![w][payload[p].ev] = @ + 1]
                    ELSE delivered
    /\ LET sentNow == IF ok THEN sent[p] \cup {w} ELSE sent[p]
           badNow == IF ok THEN bad[p] ELSE bad[p] \cup {w}
       IN  IF BroadcastDone(snap[p], sentNow, badNow)
           THEN /\ active' = Evict(active, badNow)
                /\ pc' = [pc EXCEPT ![p] = AfterBroadcast(p)]
                /\ snap' = [snap EXCEPT ![p] = {}]
                /\ sent' = [sent EXCEPT ![p] = {}]
                /\ bad' = [bad EXCEPT ![p] = {}]
                /\ IF p = "sub" THEN SubReturns ELSE UNCHANGED << payload, found >>
           ELSE /\ sent' = [sent EXCEPT ![p] = sentNow]
                /\ bad' = [bad EXCEPT ![p] = badNow]
                /\ UNCHANGED << active, pc, snap, payload, found >>
    /\ UNCHANGED << items, clock, has_clients, wsState, bus, combined, todo,
                    schedVars, response, lastExc, waited, upstream, legacy, peer, nEvents, published,
                    stable, clean >>

\* ------------------------------------------------------------ NatsPublisher
\* json.dumps(message).encode("utf-8") and json.loads(msg.data.decode("utf-8"))
JsonDumps(message) == [json |-> TRUE, doc |-> message]
JsonLoads(data) == IF data.json THEN Some(data.doc) ELSE None

\* the subject hands a published message to every subscribed instance: here
\* to the second one, when it has subscribed
ToPeer(data) ==
    peer' = IF peer.on
            THEN [peer EXCEPT !.inbox = Append(@, data),
                              !.codes = IF data.json /\ data.doc.item # << >>
                                        THEN @ \cup {data.doc.item.code} ELSE @]
            ELSE peer

\* ------------------------------------------------- Poller.process_and_store
\* a comparison that also fires at a difference of exactly 1e-9
NeedsUpdateInclusive(stored, fetched) == AbsDiff(stored, fetched) >= EPS

\* abs(item.rate - info["rate"]) > 1e-9
NeedsUpdate(stored, fetched) == AbsDiff(stored, fetched) > EPS

\* a pass that also writes when the nominal or the source differs
MustWriteAnyField(item, info) ==
    IF item = None THEN TRUE
    ELSE \/ NeedsUpdate(item[1].rate, info.rate)
         \/ item[1].nominal # info.nominal
         \/ item[1].source # info.source

\* "if item is None: ... else: if abs(...) > 1e-9": the pass writes this code
MustWrite(item, info) ==
    IF item = None THEN TRUE ELSE NeedsUpdate(item[1].rate, info.rate)

\* an insert that never marks the record as crypto
CreatedRowPlain(rows, code, info, at) ==
    NewRow(rows, code, code, info.rate, info.nominal, info.source, FALSE, at)

\* the row a pass inserts for a code it did not find
CreatedRow(rows, code, info, at) ==
    NewRow(rows, code, code, info.rate, info.nominal, info.source, InCrypto(code), at)

\* an update that stamps the row but leaves the stored rate behind
UpdatedRowStale(cur, code, info, at) ==
    [cur EXCEPT !.nominal = info.nominal, !.source = info.source,
                !.is_crypto = InCrypto(code), !.updated_at = at]

\* an update that stores the rate and loses the other assignments
UpdatedRowRateOnly(cur, code, info, at) == [cur EXCEPT !.rate = info.rate]

\* the row a pass leaves when it updates cur
UpdatedRow(cur, code, info, at) ==
    [cur EXCEPT !.rate = info.rate, !.nominal = info.nominal,
                !.source = info.source, !.is_crypto = InCrypto(code),
                !.updated_at = at]

\* an error on one code that ends the pass
AfterCodeErrorAborts(rest) == << >>

\* "except Exception as exc: print(...)" around one code: the pass goes on
AfterCodeError(rest) == rest

\* a publish error that escapes and ends the pass
AfterPublishErrorAborts(rest) == << >>

\* "try: await self.nats.publish(...) except Exception: print(...)"
AfterPublishError(rest) == rest

\* run_once has returned: where the coroutine is next
PcAfterPass(p) == IF p = "loop" THEN "sleep" ELSE "idle"

\* an exception that escapes run_once and _loop: no sleep, no next pass
AfterPassErrorEscapes(p) == "idle"

\* run_once: "except Exception as exc: print(...)"; _loop's own except likewise
AfterPassError(p) == PcAfterPass(p)

\* one code is done with; rest are the codes the pass has still to process
Advance(p, rest, cleanNow) ==
    /\ todo' = [todo EXCEPT ![p] = rest]
    /\ found' = [found EXCEPT ![p] = None]
    /\ payload' = [payload EXCEPT ![p] = NoPayload]
    /\ pc' = [pc EXCEPT ![p] = IF rest # << >> THEN "lookup" ELSE PcAfterPass(p)]
    /\ combined' = IF rest # << >> THEN combined ELSE [combined EXCEPT ![p] = EmptyDict]
    /\ response' = IF p = "api" /\ rest = << >>
                   THEN [response EXCEPT !["api"] = "202"] ELSE response
    /\ lastExc' = IF p = "loop" /\ rest = << >> THEN FALSE ELSE lastExc
    /\ stable' = IF rest = << >> /\ cleanNow THEN Some(combined[p]) ELSE stable
    /\ clean' = [clean EXCEPT ![p] = IF rest = << >> THEN FALSE ELSE cleanNow]
    /\ upstream' = IF rest = << >> THEN [upstream EXCEPT ![p] = None] ELSE upstream

\* run_task: POST /tasks/run calls poller.run_once()
RunTask ==
    /\ pc["api"] = "idle"
    /\ pc' = [pc EXCEPT !["api"] = "fetch"]
    /\ response' = [response EXCEPT !["api"] = "none"]
    /\ upstream' = [upstream EXCEPT !["api"] = None]
    /\ UNCHANGED << items, clock, regVars, bus, combined, todo, found, payload,
                    bcastVars, schedVars, lastExc, waited, legacy, peer, nEvents, faults,
                    delivered, published, stable, clean >>

\* run_once: fetch_cbr, fetch_binance and the merge, then into process_and_store;
\* cbrs and bins are the upstream answers the environment may give
Fetch(p, cbrs, bins) ==
    /\ pc[p] = "fetch"
    /\ p = "loop" => ~cancelReq
    /\ \E cbr \in cbrs :
       \E bin \in [{CRYPTO_CODES[i] : i \in 1..Len(CRYPTO_CODES)} -> bins] :
          /\ upstream' = [upstream EXCEPT ![p] = Some([cbr |-> cbr, bin |-> bin])]
          /\ IF fetch_binance_raises(CRYPTO_CODES, bin)
             THEN \* run_once: "except Exception as exc: print(...)"
                  /\ pc' = [pc EXCEPT ![p] = AfterPassError(p)]
                  /\ response' = IF p = "api"
                                 THEN [response EXCEPT !["api"] = "202"] ELSE response
                  /\ lastExc' = IF p = "loop" THEN TRUE ELSE lastExc
                  /\ UNCHANGED << combined, todo, clean >>
             ELSE /\ combined' = [combined EXCEPT ![p] = Combined(cbr, bin)]
                  /\ todo' = [todo EXCEPT ![p] = combined'[p].ks]
                  /\ pc' = [pc EXCEPT ![p] = "lookup"]
                  /\ clean' = [clean EXCEPT ![p] = TRUE]
                  /\ UNCHANGED << response, lastExc >>
    /\ UNCHANGED << items, clock, regVars, bus, found, payload, bcastVars,
                    schedVars, waited, legacy, peer, nEvents, faults,
                    delivered, published, stable >>

\* run_once: an exception before process_and_store, caught by its except
FetchRaises(p) ==
    /\ pc[p] = "fetch"
    /\ p = "loop" => ~cancelReq
    /\ Fault
    /\ pc' = [pc EXCEPT ![p] = AfterPassError(p)]
    /\ response' = IF p = "api" THEN [response EXCEPT !["api"] = "202"] ELSE response
    /\ lastExc' = IF p = "loop" THEN TRUE ELSE lastExc
    /\ UNCHANGED << items, clock, regVars, bus, combined, todo, found, payload,
                    bcastVars, schedVars, waited, upstream, legacy, peer, nEvents, delivered, published,
                    stable, clean >>

\* process_and_store: db.execute for the next code, and the decision
Lookup(p) ==
    /\ pc[p] = "lookup"
    /\ p = "loop" => ~cancelReq
    /\ LET code == Head(todo[p])
           info == combined[p].v[code]
           item == SelectByCode(items, code)
       IN  \/ /\ NoFault
              /\ MustWrite(item, info)
              /\ found' = [found EXCEPT ![p] = Ref(item)]
              /\ pc' = [pc EXCEPT ![p] = "commit"]
              /\ UNCHANGED << todo, combined, payload, response, lastExc, stable, clean,
                              upstream >>
           \/ /\ NoFault
              /\ ~MustWrite(item, info)
              /\ Advance(p, Tail(todo[p]), clean[p])
           \/ /\ Fault
              /\ Advance(p, AfterCodeError(Tail(todo[p])), FALSE)
    /\ UNCHANGED << items, clock, regVars, bus, bcastVars, schedVars, waited, legacy, peer,
                    nEvents, delivered, published >>

\* process_and_store: db.commit of the insert or of the update
Commit(p) ==
    /\ pc[p] = "commit"
    /\ p = "loop" => ~cancelReq
    /\ LET code == Head(todo[p])
           info == combined[p].v[code]
           at == clock + 1
           created == CreatedRow(items, code, info, at)
       IN  \/ /\ NoFault /\ nEvents < MaxEvents
              /\ found[p] = None /\ ~UniqueViolation(items, code)
              /\ items' = items \cup {created}
              /\ found' = [found EXCEPT ![p] = Some(created.id)]
              /\ payload' = [payload EXCEPT ![p] =
                               [type |-> "created", item |-> << >>, ev |-> nEvents + 1]]
              /\ Wrote(p, items') /\ clock' = at /\ nEvents' = nEvents + 1
              /\ pc' = [pc EXCEPT ![p] = "refresh"]
              /\ UNCHANGED << todo, combined, response, lastExc, upstream >>
           \/ /\ NoFault /\ nEvents < MaxEvents
              /\ found[p] # None
              /\ items' = ReplaceRow(items, found[p][1],
                             UpdatedRow(RowById(items, found[p][1]), code, info, at))
              /\ payload' = [payload EXCEPT ![p] =
                               [type |-> "updated", item |-> << >>, ev |-> nEvents + 1]]
              /\ Wrote(p, items') /\ clock' = at /\ nEvents' = nEvents + 1
              /\ pc' = [pc EXCEPT ![p] = "refresh"]
              /\ UNCHANGED << found, todo, combined, response, lastExc, upstream >>
           \/ /\ NoFault
              /\ found[p] = None /\ UniqueViolation(items, code)
              /\ Advance(p, AfterCodeError(Tail(todo[p])), FALSE)
              /\ UNCHANGED << items, clock, nEvents >>
           \/ /\ Fault
              /\ Advance(p, AfterCodeError(Tail(todo[p])), FALSE)
              /\ UNCHANGED << items, clock, nEvents >>
    /\ UNCHANGED << regVars, bus, bcastVars, schedVars, waited, legacy, peer, delivered,
                    published >>

\* process_and_store: db.refresh, the payload, and into manager.broadcast
Refresh(p) ==
    /\ pc[p] = "refresh"
    /\ p = "loop" => ~cancelReq
    /\ payload' = [payload EXCEPT ![p].item = ItemFields(RowById(items, found[p][1]))]
    /\ BeginBroadcast(p)
    /\ UNCHANGED << items, clock, regVars, bus, combined, todo, found,
                    schedVars, response, lastExc, waited, upstream, legacy, peer, nEvents, faults,
                    delivered, published, stable, clean >>

\* process_and_store: self.nats.publish("items.updates", payload)
Publish(p, ok) ==
    /\ pc[p] = "publish"
    /\ p = "loop" => ~cancelReq
    /\ IF ok
       THEN /\ NoFault
            /\ bus' = Append(bus, JsonDumps(payload[p]))
            /\ ToPeer(JsonDumps(payload[p]))
            /\ published' = [published EXCEPT ![payload[p].ev] = @ + 1]
            /\ Advance(p, Tail(todo[p]), clean[p])
       ELSE /\ Fault
            /\ UNCHANGED << bus, published, peer >>
            /\ Advance(p, AfterPublishError(Tail(todo[p])), clean[p])
    /\ UNCHANGED << items, clock, regVars, bcastVars, schedVars, waited,
                    legacy, nEvents, delivered >>

\* ------------------------------------------------------ Poller._loop / stop
\* awaits of process_and_store: inside "async for db ... try ... finally: break"
InProcessAndStore(at) == at \in {"lookup", "commit", "refresh", "send", "publish"}

\* what becomes of a CancelledError raised at the await `at` of the loop task:
\* "swallowed" by process_and_store's "finally: break", or it "ends" the task
\* (_loop's "except asyncio.CancelledError: break", or out of asyncio.sleep)
CancelOutcome(at) == IF InProcessAndStore(at) THEN "swallowed" ELSE "ends"

\* Poller.start, called while no stop() is suspended
Start ==
    /\ stopPc = "idle"
    /\ task \in {"None", "done"}
    /\ task' = "pending"
    /\ cancelReq' = FALSE
    /\ pc' = [pc EXCEPT !["loop"] = "fetch"]
    /\ UNCHANGED << items, clock, regVars, bus, combined, todo, found, payload,
                    bcastVars, stopPc, stray, response, lastExc, waited, upstream, legacy, peer, nEvents,
                    faults, delivered, published, stable, clean >>

\* Poller.start called while stop() waits for a task that has ended:
\* self._task.done() holds, Poller._task becomes a new task, and stop() still
\* waits for the old one
StartWhileStopping ==
    /\ stopPc = "await"
    /\ task = "done"
    /\ task' = "pending"
    /\ cancelReq' = FALSE
    /\ stray' = [stray EXCEPT !.swapped = TRUE]
    /\ pc' = [pc EXCEPT !["loop"] = "fetch"]
    /\ UNCHANGED << items, clock, regVars, bus, combined, todo, found, payload,
                    bcastVars, stopPc, response, lastExc, waited, upstream, legacy, peer, nEvents,
                    faults, delivered, published, stable, clean >>

\* Poller.stop up to "await self._task"
Stop ==
    /\ stopPc = "idle"
    /\ task # "None"
    /\ cancelReq' = (task = "pending")
    /\ stopPc' = "await"
    /\ UNCHANGED << items, clock, regVars, bus, pc, combined, todo, found,
                    payload, bcastVars, task, stray, response, lastExc, waited, upstream, legacy, peer, nEvents,
                    faults, delivered, published, stable, clean >>

\* Poller.stop: the awaited task has finished; self._task = None. When start()
\* has replaced Poller._task meanwhile, the task dropped here is the new one:
\* it runs on with no reference left to it (its passes are not followed)
StopReturn ==
    /\ stopPc = "await"
    /\ task = "done" \/ stray.swapped
    /\ task' = "None"
    /\ stopPc' = "idle"
    /\ IF stray.swapped /\ task = "pending"
       THEN /\ stray' = [swapped |-> FALSE, orphan |-> TRUE]
            /\ cancelReq' = FALSE
            /\ pc' = [pc EXCEPT !["loop"] = "idle"]
            /\ todo' = [todo EXCEPT !["loop"] = << >>]
            /\ combined' = [combined EXCEPT !["loop"] = EmptyDict]
            /\ found' = [found EXCEPT !["loop"] = None]
            /\ payload' = [payload EXCEPT !["loop"] = NoPayload]
            /\ snap' = [snap EXCEPT !["loop"] = {}]
            /\ sent' = [sent EXCEPT !["loop"] = {}]
            /\ bad' = [bad EXCEPT !["loop"] = {}]
            /\ clean' = [clean EXCEPT !["loop"] = FALSE]
            /\ upstream' = [upstream EXCEPT !["loop"] = None]
       ELSE /\ stray' = [stray EXCEPT !.swapped = FALSE]
            /\ UNCHANGED << cancelReq, pc, todo, combined, found, payload,
                            bcastVars, clean, upstream >>
    /\ UNCHANGED << items, clock, regVars, bus, response, lastExc, waited, legacy, peer,
                    nEvents, faults, delivered, published, stable >>

\* _loop: await asyncio.sleep(POLL_INTERVAL_SECONDS) returned
LoopSleep ==
    /\ task = "pending" /\ ~cancelReq
    /\ pc["loop"] = "sleep"
    /\ pc' = [pc EXCEPT !["loop"] = "fetch"]
    /\ UNCHANGED << items, clock, regVars, bus, combined, todo, found, payload,
                    bcastVars, schedVars, response, lastExc, waited, legacy, peer, nEvents,
                    faults, delivered, published, stable, clean >>
    /\ upstream' = [upstream EXCEPT !["loop"] = None]

\* the loop task resumes with the CancelledError of task.cancel()
LoopCancelled ==
    /\ task = "pending" /\ cancelReq
    /\ cancelReq' = FALSE
    /\ IF CancelOutcome(pc["loop"]) = "swallowed"
       THEN /\ pc' = [pc EXCEPT !["loop"] = PcAfterPass("loop")]
            /\ task' = task
       ELSE /\ pc' = [pc EXCEPT !["loop"] = "idle"]
            /\ task' = "done"
    /\ todo' = [todo EXCEPT !["loop"] = << >>]
    /\ combined' = [combined EXCEPT !["loop"] = EmptyDict]
    /\ found' = [found EXCEPT !["loop"] = None]
    /\ payload' = [payload EXCEPT !["loop"] = NoPayload]
    /\ snap' = [snap EXCEPT !["loop"] = {}]
    /\ sent' = [sent EXCEPT !["loop"] = {}]
    /\ bad' = [bad EXCEPT !["loop"] = {}]
    /\ clean' = [clean EXCEPT !["loop"] = FALSE]
    /\ lastExc' = FALSE
    /\ UNCHANGED << items, clock, regVars, bus, stopPc, stray, response, waited, legacy, peer,
                    nEvents, faults, delivered, published, stable >>
    /\ upstream' = [upstream EXCEPT !["loop"] = None]

\* ------------------------------------------------------- parser.poll_loop
\* a caller schedules poll_loop(app)
PollStart ==
    /\ legacy.pc = "off"
    /\ legacy' = [legacy EXCEPT !.pc = "rates"]
    /\ UNCHANGED << items, clock, regVars, bus, pc, combined, todo, found, payload,
                    bcastVars, schedVars, response, lastExc, waited, upstream, peer,
                    nEvents, faults, delivered, published, stable, clean >>

\* poll_loop: rates = get_exchange_rates_for_date_sync(today); asked keeps the
\* date and the bank's answer, were the bank asked
PollRates(cbrs) ==
    /\ legacy.pc = "rates"
    /\ \E d \in Dates, resp \in cbrs :
          LET got == get_exchange_rates_for_date_sync(legacy.cache, d, resp)
          IN  legacy' = [legacy EXCEPT !.pc = "crypto",
                                       !.cache = got.cache,
                                       !.rates = got.rates,
                                       !.asked = IF legacy.cache[d] = None
                                                 THEN Some([cbr |-> resp]) ELSE None]
    /\ UNCHANGED << items, clock, regVars, bus, pc, combined, todo, found, payload,
                    bcastVars, schedVars, response, lastExc, waited, upstream, peer,
                    nEvents, faults, delivered, published, stable, clean >>

\* poll_loop: crypto = get_crypto_rates_from_binance(...) and the merge; an
\* exception goes to "except Exception" and its sleep
PollCrypto(bins) ==
    /\ legacy.pc = "crypto"
    /\ \E bin \in [{CRYPTO_CODES[i] : i \in 1..Len(CRYPTO_CODES)} -> bins] :
          IF fetch_binance_raises(CRYPTO_CODES, bin)
          THEN legacy' = [legacy EXCEPT !.pc = "sleep", !.rates = EmptyDict,
                                        !.asked = None]
          ELSE legacy' = [legacy EXCEPT !.pc = "store",
                                        !.combined = LegacyCombined(legacy.rates, bin)]
    /\ UNCHANGED << items, clock, regVars, bus, pc, combined, todo, found, payload,
                    bcastVars, schedVars, response, lastExc, waited, upstream, peer,
                    nEvents, faults, delivered, published, stable, clean >>

\* poll_loop: "async with app.state.db() as db": main.py sets no "db" on
\* app.state, the AttributeError goes to "except Exception" and its sleep
PollStore ==
    /\ legacy.pc = "store"
    /\ legacy' = [legacy EXCEPT !.pc = "sleep", !.rates = EmptyDict,
                                !.combined = EmptyDict, !.asked = None]
    /\ UNCHANGED << items, clock, regVars, bus, pc, combined, todo, found, payload,
                    bcastVars, schedVars, response, lastExc, waited, upstream, peer,
                    nEvents, faults, delivered, published, stable, clean >>

\* poll_loop: asyncio.sleep(POLL_INTERVAL_SECONDS) returns
PollSleep ==
    /\ legacy.pc = "sleep"
    /\ legacy' = [legacy EXCEPT !.pc = "rates"]
    /\ UNCHANGED << items, clock, regVars, bus, pc, combined, todo, found, payload,
                    bcastVars, schedVars, response, lastExc, waited, upstream, peer,
                    nEvents, faults, delivered, published, stable, clean >>

\* get_exchange_rates_for_date_sync on thread t, up to requests.get: the cached
\* map is returned, or the request is on its way
CallEnter(t, d) ==
    /\ legacy.calls[t].pc = "out"
    /\ IF legacy.cache[d] # None
       THEN legacy' = [legacy EXCEPT !.calls[t] =
                         [pc |-> "out", d |-> d, ret |-> legacy.cache[d]]]
       ELSE legacy' = [legacy EXCEPT !.calls[t] =
                         [pc |-> "get", d |-> d, ret |-> None]]
    /\ UNCHANGED << items, clock, regVars, bus, pc, combined, todo, found, payload,
                    bcastVars, schedVars, response, lastExc, waited, upstream, peer,
                    nEvents, faults, delivered, published, stable, clean >>

\* get_exchange_rates_for_date_sync on thread t, from the end of requests.get:
\* "cache[formatted] = ..." and the return, with no second look at the cache
CallReturn(t, cbrs) ==
    /\ legacy.calls[t].pc = "get"
    /\ \E resp \in cbrs :
          LET d == legacy.calls[t].d
              got == get_exchange_rates_for_date_sync([e \in Dates |-> None], d, resp)
          IN  legacy' = [legacy EXCEPT !.cache[d] = Some(got.rates),
                                       !.calls[t] = [pc |-> "out", d |-> d,
                                                     ret |-> Some(got.rates)]]
    /\ UNCHANGED << items, clock, regVars, bus, pc, combined, todo, found, payload,
                    bcastVars, schedVars, response, lastExc, waited, upstream, peer,
                    nEvents, faults, delivered, published, stable, clean >>

\* ---------------------------------------------------------------- on_message
\* messages other publishers put on the subject
ForeignMessages ==
    {[type |-> "updated",
      item |-> [code |-> "USD", rate |-> Rate(90, 500000000), nominal |-> 1,
                source |-> "x", is_crypto |-> FALSE]],
     [type |-> "updated",
      item |-> [code |-> "USD", rate |-> Rate(91, 0), nominal |-> 10,
                source |-> "y", is_crypto |-> TRUE]]}

\* messages whose values no check of this service would let in
OutOfRangeMessages ==
    {[type |-> "updated",
      item |-> [code |-> "USD", rate |-> Rate(-1, 0), nominal |-> 0,
                source |-> "x", is_crypto |-> FALSE]]}

\* another publisher's message arrives on items.updates
ForeignPublish(m) ==
    /\ nEvents < MaxEvents
    /\ nEvents' = nEvents + 1
    /\ bus' = Append(bus, JsonDumps([type |-> m.type, item |-> m.item, ev |-> nEvents + 1]))
    /\ ToPeer(JsonDumps([type |-> m.type, item |-> m.item, ev |-> nEvents + 1]))
    /\ published' = [published EXCEPT ![nEvents + 1] = @ + 1]
    /\ UNCHANGED << items, clock, regVars, pc, combined, todo, found, payload,
                    bcastVars, schedVars, response, lastExc, waited, upstream, legacy,
                    faults, delivered, stable, clean >>

\* bodies on_message cannot use: bytes that are not JSON, a document with no
\* "item", an item with no "code" (the number is the event's, kept for counting)
MalformedMessages(e) ==
    {[json |-> FALSE, doc |-> [type |-> "updated", item |-> << >>, ev |-> e]],
     JsonDumps([type |-> "updated", item |-> << >>, ev |-> e]),
     JsonDumps([type |-> "updated",
                item |-> [code |-> "", rate |-> Rate(91, 0), nominal |-> 1,
                          source |-> "x", is_crypto |-> FALSE],
                ev |-> e])}

\* another publisher puts such a body on items.updates
ForeignRaw ==
    /\ nEvents < MaxEvents
    /\ nEvents' = nEvents + 1
    /\ \E d \in MalformedMessages(nEvents + 1) :
          /\ bus' = Append(bus, d)
          /\ ToPeer(d)
    /\ published' = [published EXCEPT ![nEvents + 1] = @ + 1]
    /\ UNCHANGED << items, clock, regVars, pc, combined, todo, found, payload,
                    bcastVars, schedVars, response, lastExc, waited, upstream, legacy,
                    faults, delivered, stable, clean >>

\* a handler that goes on whenever the document has an item
AcceptsAnyItem(data) == data.item # << >>

\* item_data = data.get("item") ... code = item_data.get("code")
Accepts(data) == data.item # << >> /\ data.item.code # ""

\* the row on_message inserts
MessageCreatedRow(rows, item_data, at) ==
    NewRow(rows, item_data.code, item_data.code, item_data.rate, item_data.nominal,
           item_data.source, item_data.is_crypto, at)

\* an overwrite that takes the rate only
MessageUpdatedRowRateOnly(cur, item_data) == [cur EXCEPT !.rate = item_data.rate]

\* a handler that leaves an existing record as it is
MessageUpdatedRowKeeps(cur, item_data) == cur

\* the row on_message leaves when the code exists
MessageUpdatedRow(cur, item_data) ==
    [cur EXCEPT !.rate = item_data.rate, !.nominal = item_data.nominal,
                !.source = item_data.source, !.is_crypto = item_data.is_crypto]

\* on_message up to its db.execute
OnMessage ==
    /\ pc["sub"] = "idle"
    /\ bus # << >>
    /\ bus' = Tail(bus)
    /\ LET data == JsonLoads(Head(bus))
       IN  IF data # None /\ Accepts(data[1])
           THEN /\ payload' = [payload EXCEPT !["sub"] = data[1]]
                /\ pc' = [pc EXCEPT !["sub"] = "lookup"]
           ELSE UNCHANGED << payload, pc >>
    /\ UNCHANGED << items, clock, regVars, combined, todo, found, bcastVars,
                    schedVars, response, lastExc, waited, upstream, legacy, peer, nEvents, faults,
                    delivered, published, stable, clean >>

\* on_message: db.execute returned, or raised into "finally: break"
MsgLookup ==
    /\ pc["sub"] = "lookup"
    /\ \/ /\ NoFault
          /\ found' = [found EXCEPT !["sub"] =
                         Ref(SelectByCode(items, payload["sub"].item.code))]
          /\ pc' = [pc EXCEPT !["sub"] = "commit"]
          /\ UNCHANGED << bcastVars, payload >>
       \/ /\ Fault
          /\ SubBroadcast
    /\ UNCHANGED << items, clock, regVars, bus, combined, todo, schedVars,
                    response, lastExc, waited, upstream, legacy, peer, nEvents, delivered, published,
                    stable, clean >>

\* on_message: db.commit of the insert or of the overwrite
MsgCommit ==
    /\ pc["sub"] = "commit"
    /\ LET item_data == payload["sub"].item
           created == MessageCreatedRow(items, item_data, clock + 1)
       IN  \/ /\ NoFault
              /\ found["sub"] = None /\ ~UniqueViolation(items, item_data.code)
              /\ items' = items \cup {created}
              /\ clock' = clock + 1
              /\ found' = [found EXCEPT !["sub"] = Some(created.id)]
              /\ pc' = [pc EXCEPT !["sub"] = "refresh"]
              /\ UNCHANGED << bcastVars, payload >>
           \/ /\ NoFault
              /\ found["sub"] # None
              /\ items' = ReplaceRow(items, found["sub"][1],
                             MessageUpdatedRow(RowById(items, found["sub"][1]), item_data))
              /\ clock' = clock
              /\ pc' = [pc EXCEPT !["sub"] = "refresh"]
              /\ UNCHANGED << bcastVars, payload, found >>
           \/ /\ NoFault
              /\ found["sub"] = None /\ UniqueViolation(items, item_data.code)
              /\ SubBroadcast
              /\ UNCHANGED << items, clock >>
           \/ /\ Fault
              /\ SubBroadcast
              /\ UNCHANGED << items, clock >>
    /\ Wrote("sub", items')
    /\ UNCHANGED << regVars, bus, combined, todo, schedVars, response, lastExc,
                    waited, upstream, legacy, peer, nEvents, delivered, published >>

\* on_message: db.refresh returned; then manager.broadcast(data)
MsgRefresh ==
    /\ pc["sub"] = "refresh"
    /\ SubBroadcast
    /\ UNCHANGED << items, clock, regVars, bus, combined, todo, schedVars,
                    response, lastExc, waited, upstream, legacy, peer, nEvents, faults, delivered,
                    published, stable, clean >>

\* ------------------------------------------------------- a second instance
\* The second instance runs the same code on a storage of its own. Its
\* coroutines are taken a whole call at a time: on_message for one message,
\* process_and_store for one merged map, none of its calls failing.

\* on_message on the rows of the second instance
PeerHandled(rows, data) ==
    IF data = None \/ ~Accepts(data[1]) THEN rows
    ELSE LET item_data == data[1].item
             item == SelectByCode(rows, item_data.code)
         IN  IF item = None
             THEN rows \cup {MessageCreatedRow(rows, item_data, 0)}
             ELSE ReplaceRow(rows, item[1].id, MessageUpdatedRow(item[1], item_data))

\* process_and_store on the rows of the second instance: the rows it leaves and
\* the payloads it publishes, in order; ev is the last event number in use
RECURSIVE PeerStored(_, _, _, _, _)
PeerStored(rows, m, codes, ev, out) ==
    IF codes = << >> THEN [rows |-> rows, out |-> out]
    ELSE LET code == Head(codes)
             info == m.v[code]
             item == SelectByCode(rows, code)
         IN  IF ~MustWrite(item, info)
             THEN PeerStored(rows, m, Tail(codes), ev, out)
             ELSE LET new == IF item = None THEN CreatedRow(rows, code, info, 0)
                             ELSE UpdatedRow(item[1], code, info, 0)
                      after == IF item = None THEN rows \cup {new}
                               ELSE ReplaceRow(rows, new.id, new)
                      msg == [type |-> IF item = None THEN "created" ELSE "updated",
                              item |-> ItemFields(new), ev |-> ev + 1]
                  IN  PeerStored(after, m, Tail(codes), ev + 1, Append(out, msg))

\* the second instance starts beside the first one: startup subscribes it
PeerStart ==
    /\ ~peer.on /\ nEvents = 0 /\ items = {}
    /\ peer' = [peer EXCEPT !.on = TRUE]
    /\ UNCHANGED << items, clock, regVars, bus, pc, combined, todo, found, payload,
                    bcastVars, schedVars, response, lastExc, waited, upstream, legacy,
                    nEvents, faults, delivered, published, stable, clean >>

\* the second instance's on_message takes its next message
PeerOnMessage ==
    /\ peer.on /\ peer.inbox # << >>
    /\ peer' = [peer EXCEPT !.inbox = Tail(@),
                            !.items = PeerHandled(@, JsonLoads(Head(peer.inbox)))]
    /\ UNCHANGED << items, clock, regVars, bus, pc, combined, todo, found, payload,
                    bcastVars, schedVars, response, lastExc, waited, upstream, legacy,
                    nEvents, faults, delivered, published, stable, clean >>

\* one pass of the second instance's poller: both instances receive what it
\* publishes
PeerPass(cbrs, bins) ==
    /\ peer.on
    /\ \E cbr \in cbrs :
       \E bin \in [{CRYPTO_CODES[i] : i \in 1..Len(CRYPTO_CODES)} -> bins] :
          LET m == Combined(cbr, bin)
              done == PeerStored(peer.items, m, m.ks, nEvents, << >>)
              sentOut == [i \in 1..Len(done.out) |-> JsonDumps(done.out[i])]
          IN  /\ ~fetch_binance_raises(CRYPTO_CODES, bin)
              /\ done.out # << >>
              /\ nEvents + Len(done.out) <= MaxEvents
              /\ nEvents' = nEvents + Len(done.out)
              /\ bus' = bus \o sentOut
              /\ peer' = [peer EXCEPT !.items = done.rows,
                                      !.inbox = @ \o sentOut,
                                      !.codes = @ \cup {done.out[i].item.code :
                                                          i \in 1..Len(done.out)}]
              /\ published' = [e \in EvIds |->
                                 IF e > nEvents /\ e <= nEvents + Len(done.out)
                                 THEN published[e] + 1 ELSE published[e]]
    /\ UNCHANGED << items, clock, regVars, pc, combined, todo, found, payload,
                    bcastVars, schedVars, response, lastExc, waited, upstream, legacy,
                    faults, delivered, stable, clean >>

\* ---------------------------------------------------------------- create_item
\* the attributes class ConnectionManager defines
ManagerAttrs == {"active", "_has_clients", "connect", "disconnect", "broadcast"}

\* manager.<name>(...): the attribute lookup
CallManager(name) == IF name \in ManagerAttrs THEN "found" ELSE "AttributeError"

\* the request bodies explored
ItemCreates ==
    {[code |-> c, title |-> "t", rate |-> Rate(90, 500000000), nominal |-> n,
      source |-> "x", is_crypto |-> FALSE] : c \in {"USD", "XRP"}, n \in {0, 1}}

\* a body with a negative rate
NegativeCreates ==
    {[code |-> "XRP", title |-> "t", rate |-> Rate(-1, 0), nominal |-> 1,
      source |-> "x", is_crypto |-> FALSE]}

\* create_item's checks of the body (400 when one fails)
ValidCreate(item) ==
    item.code # "" /\ item.title # "" /\ item.rate.w >= 0 /\ item.nominal >= 1

\* create_item has answered: its locals are gone
CrudReturns(status) ==
    /\ response' = [response EXCEPT !["crud"] = status]
    /\ pc' = [pc EXCEPT !["crud"] = "idle"]
    /\ payload' = [payload EXCEPT !["crud"] = NoPayload]
    /\ found' = [found EXCEPT !["crud"] = None]

\* create_item up to its db.commit
CreateItem(item) ==
    /\ pc["crud"] = "idle"
    /\ IF ValidCreate(item)
       THEN /\ pc' = [pc EXCEPT !["crud"] = "commit"]
            /\ payload' = [payload EXCEPT !["crud"] =
                             [type |-> "created", item |-> item, ev |-> 0]]
            /\ response' = [response EXCEPT !["crud"] = "none"]
       ELSE /\ response' = [response EXCEPT !["crud"] = "400"]
            /\ UNCHANGED << pc, payload >>
    /\ UNCHANGED << items, clock, regVars, bus, combined, todo, found, bcastVars,
                    schedVars, lastExc, waited, upstream, legacy, peer, nEvents, faults, delivered,
                    published, stable, clean >>

\* create_item: db.commit returned or raised
CrudCommit ==
    /\ pc["crud"] = "commit"
    /\ LET item == payload["crud"].item
           new == NewRow(items, item.code, item.title, item.rate, item.nominal,
                         item.source, item.is_crypto, clock + 1)
       IN  \/ /\ NoFault /\ nEvents < MaxEvents
              /\ ~UniqueViolation(items, item.code)
              /\ items' = items \cup {new}
              /\ clock' = clock + 1
              /\ nEvents' = nEvents + 1
              /\ found' = [found EXCEPT !["crud"] = Some(new.id)]
              /\ payload' = [payload EXCEPT !["crud"].ev = nEvents + 1]
              /\ pc' = [pc EXCEPT !["crud"] = "refresh"]
              /\ UNCHANGED response
           \/ /\ NoFault
              /\ UniqueViolation(items, item.code)
              /\ CrudReturns("409")
              /\ UNCHANGED << items, clock, nEvents >>
           \/ /\ Fault
              /\ CrudReturns("500")
              /\ UNCHANGED << items, clock, nEvents >>
    /\ Wrote("crud", items')
    /\ UNCHANGED << regVars, bus, combined, todo, bcastVars, schedVars, lastExc,
                    waited, upstream, legacy, peer, delivered, published >>

\* create_item: db.refresh returned; the payload; manager.wait_for_clients(...)
CrudRefresh ==
    /\ pc["crud"] = "refresh"
    /\ IF CallManager("wait_for_clients") = "AttributeError"
       THEN \* "except Exception: raise HTTPException(500)"
            /\ waited' = [result |-> "raised", registered |-> active, ev |-> payload["crud"].ev]
            /\ CrudReturns("500")
       ELSE /\ waited' = [result |-> "pending", registered |-> active, ev |-> payload["crud"].ev]
            /\ pc' = [pc EXCEPT !["crud"] = "wait"]
            /\ payload' = [payload EXCEPT !["crud"].item = RowById(items, found["crud"][1])]
            /\ UNCHANGED << response, found >>
    /\ UNCHANGED << items, clock, regVars, bus, combined, todo, bcastVars,
                    schedVars, lastExc, upstream, legacy, peer, nEvents, faults,
                    delivered, published, stable, clean >>

\* ----------------------------------------------------------------- patch_item
\* request bodies of PATCH /items/{id}: ItemUpdate, every field optional
ItemPatches ==
    {[title |-> None, rate |-> q[1], nominal |-> q[2], source |-> None,
      is_crypto |-> None] :
        q \in {<< None, None >>, << Some(Rate(91, 0)), Some(10) >>,
               << Some(Rate(-1, 0)), None >>, << None, Some(0) >>}}

\* "if patch.<field> is not None: item.<field> = patch.<field>"
PatchedRow(cur, patch) ==
    [cur EXCEPT !.title = IF patch.title = None THEN @ ELSE patch.title[1],
                !.rate = IF patch.rate = None THEN @ ELSE patch.rate[1],
                !.nominal = IF patch.nominal = None THEN @ ELSE patch.nominal[1],
                !.source = IF patch.source = None THEN @ ELSE patch.source[1],
                !.is_crypto = IF patch.is_crypto = None THEN @ ELSE patch.is_crypto[1]]

\* "changed": some field of the body is set
PatchChanges(patch) ==
    \/ patch.title # None \/ patch.rate # None \/ patch.nominal # None
    \/ patch.source # None \/ patch.is_crypto # None

\* patch_item up to its db.commit: db.get, 404, the assignments
PatchItem(id, patch) ==
    /\ pc["crud"] = "idle"
    /\ IF ~\E r \in items : r.id = id
       THEN /\ response' = [response EXCEPT !["crud"] = "404"]
            /\ UNCHANGED << pc, payload, found >>
       ELSE IF ~PatchChanges(patch)
       THEN /\ response' = [response EXCEPT !["crud"] = "200"]
            /\ UNCHANGED << pc, payload, found >>
       ELSE /\ pc' = [pc EXCEPT !["crud"] = "patch"]
            /\ payload' = [payload EXCEPT !["crud"] =
                             [type |-> "updated", item |-> patch, ev |-> 0]]
            /\ found' = [found EXCEPT !["crud"] = Some(id)]
            /\ response' = [response EXCEPT !["crud"] = "none"]
    /\ UNCHANGED << items, clock, regVars, bus, combined, todo, bcastVars,
                    schedVars, lastExc, waited, upstream, legacy, peer, nEvents, faults,
                    delivered, published, stable, clean >>

\* patch_item: db.commit returned or raised; after a commit, db.refresh and
\* manager.wait_for_clients(...), whose AttributeError becomes the answer 500
PatchCommit ==
    /\ pc["crud"] = "patch"
    /\ \/ /\ NoFault
          /\ items' = ReplaceRow(items, found["crud"][1],
                         PatchedRow(RowById(items, found["crud"][1]), payload["crud"].item))
       \/ /\ Fault
          /\ UNCHANGED items
    /\ CallManager("wait_for_clients") = "AttributeError"
    /\ CrudReturns("500")
    /\ Wrote("crud", items')
    /\ UNCHANGED << clock, regVars, bus, combined, todo, bcastVars, schedVars,
                    lastExc, waited, upstream, legacy, peer, nEvents, delivered,
                    published >>

\* ------------------------------------------------------------ specifications
\* every upstream answer explored
AnyCbr == CbrResponses
AnyBinance == BinanceResponses

\* the whole service
Next ==
    \/ \E w \in WS : Connect(w)
    \/ \E w \in WS : Disconnect(w)
    \/ \E p \in Procs \ {"crud"}, w \in WS, ok \in BOOLEAN : Send(p, w, ok)
    \/ Start
    \/ StartWhileStopping
    \/ Stop
    \/ StopReturn
    \/ LoopSleep
    \/ LoopCancelled
    \/ RunTask
    \/ \E p \in Passes : Fetch(p, AnyCbr, AnyBinance)
    \/ \E p \in Passes : FetchRaises(p)
    \/ \E p \in Passes : Lookup(p)
    \/ \E p \in Passes : Commit(p)
    \/ \E p \in Passes : Refresh(p)
    \/ \E p \in Passes, ok \in BOOLEAN : Publish(p, ok)
    \/ \E m \in ForeignMessages \cup OutOfRangeMessages : ForeignPublish(m)
    \/ ForeignRaw
    \/ OnMessage
    \/ MsgLookup
    \/ MsgCommit
    \/ MsgRefresh
    \/ \E item \in ItemCreates \cup NegativeCreates : CreateItem(item)
    \/ CrudCommit
    \/ CrudRefresh
    \/ \E id \in 1..2, patch \in ItemPatches : PatchItem(id, patch)
    \/ PatchCommit
    \/ PeerStart
    \/ PeerOnMessage
    \/ PeerPass(AnyCbr, AnyBinance)
    \/ PollStart
    \/ PollRates(AnyCbr \cup CbrFailures)
    \/ PollCrypto(BinanceOutcomes)
    \/ PollStore
    \/ PollSleep
    \/ \E t \in Threads, d \in Dates : CallEnter(t, d)
    \/ \E t \in Threads : CallReturn(t, AnyCbr \cup CbrFailures)

Spec == Init /\ [][Next]_vars

\* The claims are checked under parts of the service, each with the coroutines
\* and the upstream answers its claims are about.
SteadyCbr == {r \in CbrResponses : r.kind = "ok" /\ r.content[2].Value = Some(Rate(90, 500000000))}
BinanceDown == {r \in BinanceResponses : r.status # 200}
\* the bank's USD quote moving between two values 2e-9 apart
MovingCbr == {r \in CbrResponses : r.kind = "ok" /\ r.content[2].Value[1].n # 500000001}
BinanceUp == {r \in BinanceResponses : r.status = 200}

\* the scheduled passes over every answer of the bank, with one live subscriber
PassNext ==
    \/ Connect("w1")
    \/ \E ok \in BOOLEAN : Send("loop", "w1", ok)
    \/ Start
    \/ LoopSleep
    \/ Fetch("loop", AnyCbr, BinanceDown)
    \/ FetchRaises("loop")
    \/ Lookup("loop")
    \/ Commit("loop")
    \/ Refresh("loop")
    \/ \E ok \in BOOLEAN : Publish("loop", ok)

PassSpec == Init /\ [][PassNext]_vars

\* the scheduled passes, the live subscribers and the bus looping back
FanoutNext ==
    \/ \E w \in WS : Connect(w)
    \/ \E w \in WS : Disconnect(w)
    \/ \E p \in {"loop", "sub"}, w \in WS, ok \in BOOLEAN : Send(p, w, ok)
    \/ Start
    \/ LoopSleep
    \/ Fetch("loop", SteadyCbr, BinanceDown)
    \/ Lookup("loop")
    \/ Commit("loop")
    \/ Refresh("loop")
    \/ \E ok \in BOOLEAN : Publish("loop", ok)
    \/ OnMessage
    \/ MsgLookup
    \/ MsgCommit
    \/ MsgRefresh

FanoutSpec == Init /\ [][FanoutNext]_vars

\* the bus handler fed by other publishers, and the live subscribers
LoopbackNext ==
    \/ \E w \in WS : Connect(w)
    \/ \E w \in WS : Disconnect(w)
    \/ \E w \in WS, ok \in BOOLEAN : Send("sub", w, ok)
    \/ \E m \in ForeignMessages : ForeignPublish(m)
    \/ OnMessage
    \/ MsgLookup
    \/ MsgCommit
    \/ MsgRefresh

LoopbackSpec == Init /\ [][LoopbackNext]_vars

\* the bus handler fed with usable and unusable bodies, and the live subscribers
IgnoreNext ==
    \/ \E w \in WS : Connect(w)
    \/ \E w \in WS, ok \in BOOLEAN : Send("sub", w, ok)
    \/ \E m \in ForeignMessages : ForeignPublish(m)
    \/ ForeignRaw
    \/ OnMessage
    \/ MsgLookup
    \/ MsgCommit
    \/ MsgRefresh

IgnoreSpec == Init /\ [][IgnoreNext]_vars

\* POST /tasks/run: on-demand passes whose fetches return, with one live
\* subscriber
TriggerNext ==
    \/ Connect("w1")
    \/ \E ok \in BOOLEAN : Send("api", "w1", ok)
    \/ RunTask
    \/ Fetch("api", SteadyCbr, AnyBinance)
    \/ Lookup("api")
    \/ Commit("api")
    \/ Refresh("api")
    \/ \E ok \in BOOLEAN : Publish("api", ok)

TriggerSpec == Init /\ [][TriggerNext]_vars

\* on-demand passes over a steady bank and every outcome of a price lookup
AdapterNext ==
    \/ RunTask
    \/ Fetch("api", SteadyCbr, BinanceOutcomes)
    \/ Lookup("api")
    \/ Commit("api")
    \/ Refresh("api")
    \/ \E ok \in BOOLEAN : Publish("api", ok)

AdapterSpec == Init /\ [][AdapterNext]_vars

\* the bank failing: on-demand passes, and poll_loop with its own adapters
FallbackNext ==
    \/ RunTask
    \/ Fetch("api", CbrFailures, BinanceDown)
    \/ Lookup("api")
    \/ Commit("api")
    \/ Refresh("api")
    \/ \E ok \in BOOLEAN : Publish("api", ok)
    \/ PollStart
    \/ PollRates(CbrFailures \cup SteadyCbr)
    \/ PollCrypto(BinanceOutcomes)
    \/ PollStore
    \/ PollSleep

FallbackSpec == Init /\ [][FallbackNext]_vars

\* every writer of the table at once: scheduled passes, on-demand passes, the
\* bus handler fed by the passes' own messages, and POST /items
WritersNext ==
    \/ Start
    \/ LoopSleep
    \/ RunTask
    \/ \E p \in Passes : Fetch(p, SteadyCbr, BinanceDown)
    \/ \E p \in Passes : Lookup(p)
    \/ \E p \in Passes : Commit(p)
    \/ \E p \in Passes : Refresh(p)
    \/ \E p \in Passes : Publish(p, TRUE)
    \/ OnMessage
    \/ MsgLookup
    \/ MsgCommit
    \/ MsgRefresh
    \/ \E item \in ItemCreates : CreateItem(item)
    \/ CrudCommit
    \/ CrudRefresh

WritersSpec == Init /\ [][WritersNext]_vars

\* the paths that take rate and nominal from a caller: the bus handler fed by
\* other publishers, POST /items and PATCH /items/{id}
RangeNext ==
    \/ \E m \in OutOfRangeMessages : ForeignPublish(m)
    \/ OnMessage
    \/ MsgLookup
    \/ MsgCommit
    \/ MsgRefresh
    \/ \E item \in ItemCreates \cup NegativeCreates : CreateItem(item)
    \/ CrudCommit
    \/ CrudRefresh
    \/ \E id \in 1..2, patch \in ItemPatches : PatchItem(id, patch)
    \/ PatchCommit

RangeSpec == Init /\ [][RangeNext]_vars

\* two instances on one subject: the first one's scheduled passes and bus
\* handler step by step, the second one's a call at a time; the storage does
\* not fail, a publish may
ConvergeNext ==
    \/ PeerStart
    \/ PeerOnMessage
    \/ PeerPass(SteadyCbr, BinanceDown)
    \/ Start
    \/ LoopSleep
    \/ Fetch("loop", MovingCbr, BinanceDown)
    \/ Lookup("loop") /\ NoFault
    \/ Commit("loop") /\ NoFault
    \/ Refresh("loop")
    \/ \E ok \in BOOLEAN : Publish("loop", ok)
    \/ OnMessage
    \/ MsgLookup /\ NoFault
    \/ MsgCommit /\ NoFault
    \/ MsgRefresh

ConvergeSpec == Init /\ [][ConvergeNext]_vars

\* on-demand passes while the bank changes the nominal it quotes USD for, with
\* Binance up, one live subscriber, and records made by POST /items
FrameNext ==
    \/ Connect("w1")
    \/ \E ok \in BOOLEAN : Send("api", "w1", ok)
    \/ RunTask
    \/ Fetch("api", RequotedCbr, BinanceUp)
    \/ \E item \in {i \in ItemCreates : i.code = "USD"} : CreateItem(item)
    \/ CrudCommit
    \/ CrudRefresh
    \/ Lookup("api")
    \/ Commit("api")
    \/ Refresh("api")
    \/ \E ok \in BOOLEAN : Publish("api", ok)

FrameSpec == Init /\ [][FrameNext]_vars

\* both pipelines up to their merged map: run_once and poll_loop, with the bank
\* answering or failing and Binance up or down per symbol; storage and the bus
\* do not fail
MergeNext ==
    \/ RunTask
    \/ Fetch("api", CbrFailures \cup SteadyCbr, AnyBinance)
    \/ Lookup("api") /\ NoFault
    \/ Commit("api") /\ NoFault
    \/ Refresh("api")
    \/ Publish("api", TRUE)
    \/ PollStart
    \/ PollRates(CbrFailures \cup SteadyCbr)
    \/ PollCrypto(AnyBinance)
    \/ PollStore
    \/ PollSleep

MergeSpec == Init /\ [][MergeNext]_vars

\* scheduled passes that are stopped and restarted and whose storage fails,
\* over records a client stored through POST /items
AtomicNext ==
    \/ Start
    \/ Stop
    \/ StopReturn
    \/ LoopSleep
    \/ LoopCancelled
    \/ Fetch("loop", ShiftedCbr, BinanceDown)
    \/ Lookup("loop")
    \/ Commit("loop")
    \/ Refresh("loop")
    \/ \E ok \in BOOLEAN : Publish("loop", ok)
    \/ \E item \in {i \in ItemCreates : i.code = "USD"} : CreateItem(item)
    \/ CrudCommit
    \/ CrudRefresh

AtomicSpec == Init /\ [][AtomicNext]_vars

\* the scheduled pass and the on-demand pass side by side, fetching the same
\* map each time, over a record a client stored, with one live subscriber
ConcurrentNext ==
    \/ Connect("w1")
    \/ \E p \in Passes, ok \in BOOLEAN : Send(p, "w1", ok)
    \/ Start
    \/ LoopSleep
    \/ RunTask
    \/ \E p \in Passes : Fetch(p, ShiftedCbr, BinanceDown)
    \/ \E p \in Passes : Lookup(p)
    \/ \E p \in Passes : Commit(p)
    \/ \E p \in Passes : Refresh(p)
    \/ \E p \in Passes : Publish(p, TRUE)
    \/ \E item \in {i \in ItemCreates : i.code = "USD" /\ i.nominal = 1} : CreateItem(item)
    \/ CrudCommit
    \/ CrudRefresh

ConcurrentSpec == Init /\ [][ConcurrentNext]_vars

\* callers of get_exchange_rates_for_date_sync on two threads, and poll_loop
CacheNext ==
    \/ \E t \in Threads, d \in Dates : CallEnter(t, d)
    \/ \E t \in Threads : CallReturn(t, CbrFailures \cup SteadyCbr)
    \/ PollStart
    \/ PollRates(CbrFailures \cup SteadyCbr)
    \/ PollCrypto(BinanceDown)
    \/ PollStore
    \/ PollSleep

CacheSpec == Init /\ [][CacheNext]_vars

\* start() and stop() called in any order, also while the other is suspended
LifeNext ==
    \/ Start
    \/ StartWhileStopping
    \/ Stop
    \/ StopReturn
    \/ LoopSleep
    \/ LoopCancelled
    \/ Fetch("loop", SteadyCbr, BinanceDown)
    \/ Lookup("loop")
    \/ Commit("loop")
    \/ Refresh("loop")
    \/ \E ok \in BOOLEAN : Publish("loop", ok)

LifeSpec == Init /\ [][LifeNext]_vars

\* the loop task's life: start, passes, sleep, stop
SchedNext ==
    \/ Connect("w1")
    \/ \E ok \in BOOLEAN : Send("loop", "w1", ok)
    \/ Start
    \/ Stop
    \/ StopReturn
    \/ LoopSleep
    \/ LoopCancelled
    \/ Fetch("loop", SteadyCbr, BinanceDown)
    \/ FetchRaises("loop")
    \/ Lookup("loop")
    \/ Commit("loop")
    \/ Refresh("loop")
    \/ \E ok \in BOOLEAN : Publish("loop", ok)

SchedSpec == Init /\ [][SchedNext]_vars

\* POST /items beside the live subscribers and the bus handler
CrudNext ==
    \/ \E w \in WS : Connect(w)
    \/ \E w \in WS : Disconnect(w)
    \/ \E item \in ItemCreates : CreateItem(item)
    \/ CrudCommit
    \/ CrudRefresh

CrudSpec == Init /\ [][CrudNext]_vars

\* the event loop resumes a coroutine that can go on: the loop task's awaits
\* return, a requested cancellation is delivered, a finished task ends the await
LoopStep ==
    \/ LoopSleep
    \/ Fetch("loop", SteadyCbr, BinanceDown)
    \/ FetchRaises("loop")
    \/ Lookup("loop")
    \/ Commit("loop")
    \/ Refresh("loop")
    \/ \E ok \in BOOLEAN : Send("loop", "w1", ok)
    \/ \E ok \in BOOLEAN : Publish("loop", ok)

SchedFairSpec ==
    SchedSpec /\ WF_vars(LoopStep) /\ WF_vars(LoopCancelled) /\ WF_vars(StopReturn)

\* ==================================================================== claims
\* the loop's pass has taken a step of its own
PassStepped == pc'["loop"] # pc["loop"] \/ todo'["loop"] # todo["loop"]

\* the bus handler has taken a step of its own
SubStepped == pc'["sub"] # pc["sub"]

\* ------------------------------------------------------------------------ C1
\* C1: a pass over the merged map that the previous pass has just stored
\* completely (nothing failed, nobody else wrote since) writes no row, produces
\* no change event, sends nothing to a subscriber and publishes nothing, for
\* every code of the map.
C1_SecondPassIdle ==
    [][ (pc["loop"] \in {"lookup", "commit", "refresh", "send", "publish"}
         /\ clean["loop"] /\ stable = Some(combined["loop"]))
        => /\ pc["loop"] = "lookup"
           /\ items' = items
           /\ clock' = clock
           /\ nEvents' = nEvents
           /\ delivered' = delivered
           /\ bus' = bus
           /\ published' = published
           /\ pc'["loop"] \in {"lookup", "sleep"} ]_vars

\* the second pass over the same two-code map has passed its first code, with a
\* subscriber registered and both rows stored
C1_Witness ==
    /\ pc["loop"] = "lookup"
    /\ clean["loop"]
    /\ stable = Some(combined["loop"])
    /\ combined["loop"].ks = << "RUB", "USD" >>
    /\ todo["loop"] = << "USD" >>
    /\ Cardinality(items) = 2
    /\ active = {"w1"}

\* ------------------------------------------------------------------------ C2
\* C2: for one change event of a pass, no subscriber is sent the event more
\* than once in total, and the bus carries it no more than once (stated for
\* the runs in which nothing has failed, which the claim includes).
C2_ExactlyOnce ==
    faults = 0 =>
        \A e \in EvIds :
            /\ published[e] <= 1
            /\ \A w \in WS : delivered[w][e] <= 1

\* ------------------------------------------------------------------------ C3
\* |a - b| exceeds 1e-9, on the billionths themselves
Beyond(a, b) ==
    \/ a.w - b.w >= 2
    \/ b.w - a.w >= 2
    \/ (a.w - b.w) * 1000000000 + (a.n - b.n) > 1
    \/ (b.w - a.w) * 1000000000 + (b.n - a.n) > 1

\* C3: for a code whose record exists, the pass goes on to write (and, the
\* commit succeeding, stores the fetched rate and emits one "updated" event) if
\* and only if |stored rate - fetched rate| > 1e-9; at a difference of 1e-9 or
\* less it leaves the record and emits nothing.  Steps in which a storage
\* failure is injected are left aside.
C3_EpsilonTolerance ==
    [][ /\ (pc["loop"] = "lookup" /\ PassStepped /\ faults' = faults
            /\ \E r \in items : r.code = Head(todo["loop"]))
           => LET code == Head(todo["loop"])
                  r == CHOOSE x \in items : x.code = code
              IN  /\ Beyond(r.rate, combined["loop"].v[code].rate)
                        <=> pc'["loop"] = "commit"
                  /\ items' = items /\ nEvents' = nEvents
        /\ (pc["loop"] = "commit" /\ found["loop"] # None /\ PassStepped
            /\ faults' = faults)
           => LET code == Head(todo["loop"])
                  r == CHOOSE x \in items' : x.code = code
              IN  /\ r.rate = combined["loop"].v[code].rate
                  /\ nEvents' = nEvents + 1
                  /\ payload'["loop"].type = "updated"
                  /\ payload'["loop"].ev = nEvents' ]_vars

\* the stored rate was updated across a difference of two billionths, and the
\* next pass, one billionth away, has completed and left it
C3_Witness ==
    /\ stable # None
    /\ HasKey(stable[1], "USD")
    /\ stable[1].v["USD"].rate = Rate(90, 500000001)
    /\ \E r \in items : /\ r.code = "USD"
                         /\ r.rate = Rate(90, 500000002)
                         /\ r.updated_at = 3
    /\ nEvents = 3

\* ------------------------------------------------------------------------ C4
\* C4: the loop task ends only through a requested cancellation; an exception
\* in a pass (before or inside process_and_store) leaves the task running, the
\* loop sleeps after it, the sleep is followed by the next pass, and a failed
\* pass is always followed by another unless the loop is cancelled.
C4_LoopSurvives ==
    /\ [][ /\ (task = "pending" /\ task' # "pending") => cancelReq
           /\ (pc["loop"] = "fetch" /\ PassStepped /\ faults' > faults)
              => (task' = "pending" /\ pc'["loop"] = "sleep")
           /\ (pc["loop"] \in {"lookup", "commit"} /\ PassStepped /\ faults' > faults)
              => (task' = "pending" /\ pc'["loop"] \in {"lookup", "sleep"})
           /\ (pc["loop"] = "sleep" /\ PassStepped /\ ~cancelReq)
              => (task' = "pending" /\ pc'["loop"] = "fetch") ]_vars
    /\ (lastExc ~> (pc["loop"] = "fetch" \/ cancelReq))

\* the pass before raised, the loop slept, and the next pass is starting
C4_Witness == lastExc /\ task = "pending" /\ pc["loop"] = "fetch" /\ ~cancelReq

\* ------------------------------------------------------------------------ C5
\* C5: once stop() is waiting for the loop task, the task ends and stop()
\* returns with the task cleared, wherever the loop was.
C5_StopReturns == (stopPc = "await") ~> (stopPc = "idle" /\ task = "None")

\* stop() waits for the loop task while the task, its cancellation spent inside
\* process_and_store, sleeps towards its next pass
C5_Witness ==
    /\ stopPc = "await"
    /\ task = "pending"
    /\ ~cancelReq
    /\ pc["loop"] = "sleep"

\* ------------------------------------------------------------------------ C6
\* C6: a broadcast ends only when every socket of its snapshot has been tried:
\* a failed send does not end it while others remain; when it ends no socket
\* whose send failed is left in the registry, and every other socket of the
\* snapshot has had the message sent to it.
C6_EvictWithoutAbort ==
    [][ \A p \in {"loop", "sub"} :
          (pc[p] = "send" /\ (pc'[p] # "send" \/ sent'[p] # sent[p] \/ bad'[p] # bad[p]))
          => LET left == snap[p] \ (sent[p] \cup bad[p])
                 e == payload[p].ev
                 failedNow == {w \in left : delivered'[w][e] = delivered[w][e]}
             IN  /\ \A w \in sent[p] : delivered[w][e] >= 1
                 /\ pc'[p] # "send" <=> Cardinality(left) = 1
                 /\ pc'[p] # "send"
                    => /\ (bad[p] \cup failedNow) \cap active' = {}
                       /\ \A w \in snap[p] \ (bad[p] \cup failedNow) :
                             delivered'[w][e] >= 1 ]_vars

\* the first event's broadcast by the pass is over: the send to w1 failed and
\* w1 is out of the registry though its connection handler still runs, and w2
\* has the event
C6_Witness ==
    /\ pc["loop"] = "publish"
    /\ payload["loop"].ev = 1
    /\ wsState["w1"] = "open" /\ "w1" \notin active
    /\ "w2" \in active
    /\ delivered["w1"][1] = 0
    /\ delivered["w2"][1] = 1

\* ------------------------------------------------------------------------ C7
\* C7: for a change event of a pass, a failed bus publish leaves the deliveries
\* made and the registry as they are; the broadcast, whatever failed in it, is
\* followed by the publish, which when nothing fails puts the event on the bus;
\* and after the publish, failed or not, the pass goes on with the codes left.
C7_SinkIsolation ==
    [][ /\ (pc["loop"] = "publish" /\ PassStepped)
           => /\ delivered' = delivered /\ active' = active /\ items' = items
              /\ todo'["loop"] = Tail(todo["loop"])
              /\ pc'["loop"] = IF Tail(todo["loop"]) # << >> THEN "lookup" ELSE "sleep"
              /\ faults' = faults
                 => /\ Len(bus') = Len(bus) + 1
                    /\ published'[payload["loop"].ev] = published[payload["loop"].ev] + 1
        /\ (pc["loop"] \in {"refresh", "send"} /\ PassStepped)
           => pc'["loop"] \in {"send", "publish"} ]_vars

\* the publish of the first event failed after a subscriber got the event, and
\* the pass is at its next code
C7_Witness ==
    /\ nEvents = 1
    /\ published[1] = 0
    /\ \E w \in WS : delivered[w][1] = 1
    /\ pc["loop"] = "lookup"
    /\ todo["loop"] = << "USD" >>
    /\ bus = << >>

\* ------------------------------------------------------------------------ C8
\* C8: create_item reaching its wait for subscribers while none is registered
\* does not raise: it is not answered with an error, and goes on to the publish.
C8_EmptyRegistryNoError ==
    (waited.result # "none" /\ waited.registered = {})
    => (waited.result # "raised" /\ response["crud"] # "500")

\* ------------------------------------------------------------------------ C9
\* C9: the registry's wait returns a truth value: True when a subscriber is
\* registered at the call, True or False when none is.
C9_WaitForAny ==
    waited.result # "none"
    => IF waited.registered # {}
       THEN waited.result = "True"
       ELSE waited.result \in {"pending", "True", "False"}

\* ----------------------------------------------------------------------- C10
\* the four fields a bus message carries for its record
Carried(r) ==
    [rate |-> r.rate, nominal |-> r.nominal, source |-> r.source,
     is_crypto |-> r.is_crypto]

\* C10: the handler takes the message as it stands on the bus; when its commit
\* succeeds, a code that had no record has one new record with title = code and
\* the message's four fields, and a code that had a record keeps that record
\* (id, title, timestamp) with the four fields overwritten by the message's;
\* after it the very message is broadcast: every send made for it goes to a
\* socket of the registry as it was then and counts for the message's event.
C10_LoopbackUpsert ==
    [][ /\ (pc["sub"] = "idle" /\ pc'["sub"] = "lookup")
           => (Head(bus).json /\ payload'["sub"] = Head(bus).doc)
        /\ (pc["sub"] \in {"lookup", "commit", "refresh", "send"} /\ pc'["sub"] # "idle")
           => payload'["sub"] = payload["sub"]
        /\ (pc["sub"] = "commit" /\ pc'["sub"] = "refresh")
           => LET d == payload["sub"].item
                  old == {r \in items : r.code = d.code}
                  new == {r \in items' : r.code = d.code}
              IN  /\ Cardinality(new) = 1
                  /\ {r \in items' : r.code # d.code} = {r \in items : r.code # d.code}
                  /\ \A r \in new :
                        /\ Carried(r) = Carried(d)
                        /\ IF old = {}
                           THEN r.title = d.code /\ r.id \notin {x.id : x \in items}
                           ELSE \A o \in old : /\ r.id = o.id /\ r.title = o.title
                                                /\ r.updated_at = o.updated_at
        /\ (pc["sub"] = "refresh" /\ SubStepped)
           => IF active = {} THEN pc'["sub"] = "idle"
              ELSE pc'["sub"] = "send" /\ snap'["sub"] = active
        /\ \A w \in WS, e \in EvIds :
              delivered'[w][e] # delivered[w][e]
              => /\ pc["sub"] = "send" /\ e = payload["sub"].ev /\ w \in snap["sub"]
                 /\ delivered'[w][e] = delivered[w][e] + 1 ]_vars

\* the second message found the record the first one had created, its overwrite
\* is stored, and a subscriber has been sent the second message
C10_Witness ==
    /\ pc["sub"] = "send"
    /\ payload["sub"].ev = 2
    /\ found["sub"] = Some(1)
    /\ payload["sub"].item.source = "y"
    /\ \E r \in items : r.id = 1 /\ r.title = "USD" /\ Carried(r) = Carried(payload["sub"].item)
    /\ \E w \in WS : delivered[w][2] = 1

\* ----------------------------------------------------------------------- C11
\* the body at the head of the bus is not JSON, has no item, or has no code
Unusable(d) == ~d.json \/ d.doc.item = << >> \/ d.doc.item.code = ""

\* C11: when the handler takes a body that is unparsable, has no item or has no
\* item.code, it returns at once: storage is as before, no send is made, no
\* broadcast is begun; and every send the handler ever makes is for a message
\* that had an item with a code.
C11_IgnoreMalformed ==
    [][ /\ (pc["sub"] = "idle" /\ bus # << >> /\ bus' = Tail(bus) /\ Unusable(Head(bus)))
           => /\ items' = items /\ clock' = clock
              /\ delivered' = delivered
              /\ pc'["sub"] = "idle"
              /\ snap'["sub"] = snap["sub"] /\ sent'["sub"] = sent["sub"]
        /\ \A w \in WS, e \in EvIds :
              delivered'[w][e] # delivered[w][e]
              => /\ payload["sub"].item # << >>
                 /\ payload["sub"].item.code # "" ]_vars

\* three unusable bodies were taken off the bus beside two live subscribers:
\* nothing is stored, nothing was sent, the handler is idle
C11_Witness ==
    /\ nEvents = 3 /\ bus = << >> /\ \A e \in 1..3 : published[e] = 1
    /\ faults = 0 /\ items = {} /\ active = WS
    /\ pc["sub"] = "idle"
    /\ \A w \in WS, e \in EvIds : delivered[w][e] = 0
TriggeredPassFailed ==
    \/ ~clean["api"]
    \/ pc["api"] \in {"lookup", "commit"} /\ faults' > faults

\* C13: when POST /tasks/run answers, the answer is the success (202) if the
\* pass met no error and the generic failure (500) if it met one.
C13_TriggerOutcome ==
    [][ (pc["api"] # "idle" /\ pc'["api"] = "idle")
        => response'["api"] = IF TriggeredPassFailed THEN "500" ELSE "202" ]_vars

\* an on-demand pass whose lookup of RUB raised has answered 202
C13_Witness ==
    /\ pc["api"] = "idle" /\ response["api"] = "202"
    /\ faults = 1 /\ nEvents = 1
    /\ ~\E r \in items : r.code = "RUB"
    /\ \E r \in items : r.code = "USD"
\* ----------------------------------------------------------------------- C14
\* the bank did not answer, or answered with a status other than 200
CbrFailed(resp) == resp.kind = "exc" \/ resp.status # 200

\* of the bank's codes the map holds the base entry alone: rate 1.0, nominal 1
OnlyBaseEntry(m) ==
    /\ HasKey(m, "RUB")
    /\ m.v["RUB"].rate = Rate(1, 0) /\ m.v["RUB"].nominal = 1
    /\ \A c \in MONEY : ~HasKey(m, c)

\* C14: when the bank's fetch fails, each adapter returns the base entry alone
\* (rate 1.0, nominal 1) and nothing is raised: a pass of run_once goes on to
\* process the merged map, whose only bank entry is that one, and poll_loop
\* goes on to its crypto fetch with that map.
C14_FallbackBase ==
    [][ /\ \A p \in Passes :
              (pc[p] = "fetch" /\ pc'[p] # "fetch" /\ upstream'[p] # None
                 /\ CbrFailed(upstream'[p][1].cbr))
              => /\ pc'[p] = "lookup"
                 /\ OnlyBaseEntry(combined'[p])
                 /\ todo'[p] = combined'[p].ks
        /\ (legacy.pc = "rates" /\ legacy'.pc # "rates" /\ legacy'.asked # None
              /\ CbrFailed(legacy'.asked[1].cbr))
           => /\ legacy'.pc = "crypto"
              /\ OnlyBaseEntry(legacy'.rates) ]_vars

\* get_exchange_rates_for_date_sync has returned from a failed fetch with a
\* map that holds RUB alone, while an on-demand pass whose bank fetch failed
\* has stored its base entry
C14_Witness ==
    /\ legacy.pc = "crypto" /\ legacy.asked # None /\ legacy.rates.ks = << "RUB" >>
    /\ \E r \in items : r.code = "RUB" /\ r.rate = Rate(1, 0) /\ r.nominal = 1
\* ----------------------------------------------------------------------- C15
\* the lookup of the symbol's price succeeded: status 200 and a numeric price
PriceFound(r) == r.kind = "ok" /\ r.status = 200 /\ r.body = "price"

\* C15: whatever the price lookups of a pass answer, the pass goes on with a
\* merged map in which a symbol is present exactly when its own lookup
\* succeeded, with its price times the USD rate, and in which the base entry
\* and every wanted entry of the bank's document are present with their values.
C15_CryptoIsolation ==
    [][ \A p \in Passes :
          (pc[p] = "fetch" /\ pc'[p] # "fetch" /\ upstream'[p] # None
             /\ faults' = faults)
          => LET a == upstream'[p][1]
                 m == combined'[p]
                 usd == IF HasKey(m, "USD") THEN m.v["USD"].rate ELSE Rate(80, 0)
             IN  /\ pc'[p] = "lookup"
                 /\ \A i \in 1..Len(CRYPTO_CODES) :
                       LET sym == CRYPTO_CODES[i]
                       IN  IF PriceFound(a.bin[sym])
                           THEN /\ HasKey(m, sym)
                                /\ m.v[sym].rate = RateTimes(a.bin[sym].price, usd)
                           ELSE ~HasKey(m, sym)
                 /\ HasKey(m, "RUB")
                 /\ ~CbrFailed(a.cbr)
                    => \A i \in 1..Len(a.cbr.content) :
                          LET val == a.cbr.content[i]
                          IN  (val.CharCode \in MONEY /\ val.Value # None)
                              => /\ HasKey(m, val.CharCode)
                                 /\ m.v[val.CharCode].rate
                                      = RateDiv(val.Value[1], val.Nominal) ]_vars

\* BTC's lookup failed and ETH's succeeded: the pass has stored ETH and USD and
\* has no record of BTC
C15_Witness ==
    /\ pc["api"] = "idle" /\ faults = 0
    /\ \E r \in items : r.code = "ETH" /\ r.is_crypto
    /\ \E r \in items : r.code = "USD"
    /\ ~\E r \in items : r.code = "BTC"
\* ----------------------------------------------------------------------- C16
\* C16: in every reachable state no two stored records share a code, whichever
\* of the scheduled pass, the on-demand pass, the bus handler and POST /items
\* wrote them and however their steps interleave.
C16_UniqueCode ==
    \A r1 \in items, r2 \in items : r1.code = r2.code => r1 = r2

\* with no storage error injected, the on-demand pass lost the insert of RUB
\* to another writer that had looked the code up at the same time, and went on
\* to USD: the table holds one RUB record
C16_Witness ==
    /\ faults = 0
    /\ pc["api"] = "lookup" /\ todo["api"] = << "USD" >> /\ ~clean["api"]
    /\ Cardinality({r \in items : r.code = "RUB"}) = 1
\* ----------------------------------------------------------------------- C17
\* C17: in every reachable state every stored record has nominal >= 1 and
\* rate >= 0, whether a pass, a bus message, POST /items or PATCH /items/{id}
\* wrote it.
C17_ValueRange ==
    \A r \in items : r.nominal >= 1 /\ r.rate.w >= 0

\* a record that POST /items stored within range holds, after a PATCH, a
\* nominal below 1 or a negative rate
C17_Witness ==
    /\ faults = 0 /\ nEvents = 1 /\ published[1] = 0
    /\ pc["crud"] = "idle" /\ response["crud"] = "500"
    /\ \E r \in items : r.title = "t" /\ (r.nominal < 1 \/ r.rate.w < 0)
\* ----------------------------------------------------------------------- C18
\* both instances are subscribed, every published message has been handled by
\* both, and no pass of the first instance is under way
Quiet ==
    /\ peer.on /\ bus = << >> /\ peer.inbox = << >>
    /\ pc["sub"] = "idle" /\ pc["loop"] \in {"idle", "sleep", "fetch"}

\* both instances hold the same four fields for every code a message carried
Converged ==
    \A c \in peer.codes :
       /\ \E r \in items : r.code = c
       /\ {Carried(r) : r \in {x \in items : x.code = c}}
            = {Carried(r) : r \in {x \in peer.items : x.code = c}}

\* a pass over the merged map m would write nothing to rows
NothingToWrite(rows, m) ==
    \A i \in 1..Len(m.ks) :
       \E r \in rows : r.code = m.ks[i] /\ ~Beyond(r.rate, m.v[m.ks[i]].rate)

\* there is an answer of the bank under which the passes of neither instance
\* produce a change any more
Settled ==
    \E cbr \in CbrResponses, down \in BinanceDown :
       LET m == Combined(cbr, [c \in {CRYPTO_CODES[i] : i \in 1..Len(CRYPTO_CODES)} |-> down])
       IN  NothingToWrite(items, m) /\ NothingToWrite(peer.items, m)

C19_CreateOnFirstSight ==
    [][ /\ (pc["api"] = "commit" /\ found["api"] = None /\ pc'["api"] = "refresh")
           => LET code == Head(todo["api"])
                  info == combined["api"].v[code]
                  new == items' \ items
              IN  /\ items \subseteq items'
                  /\ ~\E r \in items : r.code = code
                  /\ Cardinality(new) = 1
                  /\ \A r \in new :
                        /\ r.code = code /\ r.title = code
                        /\ r.rate = info.rate /\ r.nominal = info.nominal
                        /\ r.source = info.source
                        /\ r.is_crypto = (code \in {"BTC", "ETH"})
                        /\ found'["api"] = Some(r.id)
                  /\ nEvents' = nEvents + 1
                  /\ payload'["api"].type = "created"
                  /\ payload'["api"].ev = nEvents + 1
        /\ (pc["api"] = "refresh" /\ pc'["api"] # "refresh"
              /\ payload["api"].type = "created")
           => LET code == Head(todo["api"])
                  info == combined["api"].v[code]
              IN  /\ payload'["api"].type = "created"
                  /\ payload'["api"].ev = payload["api"].ev
                  /\ payload'["api"].item
                       = [code |-> code, rate |-> info.rate, nominal |-> info.nominal,
                          source |-> info.source,
                          is_crypto |-> (code \in {"BTC", "ETH"})]
                  /\ IF active = {} THEN pc'["api"] = "publish"
                     ELSE pc'["api"] = "send" /\ snap'["api"] = active
        /\ (pc["api"] = "publish" /\ bus' # bus)
           => bus' = Append(bus, [json |-> TRUE, doc |-> payload["api"]])
        /\ \A e \in EvIds : /\ published'[e] <= 1
                             /\ \A w \in WS : delivered'[w][e] <= 1 ]_vars

\* a pass met BTC for the first time with a subscriber connected: BTC is
\* stored as a crypto record titled BTC from Binance, its event was sent to the
\* subscriber once and put on the bus once
C19_Witness ==
    /\ pc["api"] = "idle"
    /\ \E r \in items :
          /\ r.code = "BTC" /\ r.title = "BTC" /\ r.is_crypto
          /\ r.source = CRYPTO_SOURCE /\ r.nominal = 1 /\ r.rate = Rate(181, 0)
    /\ \E i \in 1..Len(bus) :
          /\ bus[i].doc.type = "created" /\ bus[i].doc.item.code = "BTC"
          /\ delivered["w1"][bus[i].doc.ev] = 1
          /\ published[bus[i].doc.ev] = 1
\* ----------------------------------------------------------------------- C20
\* C20: when the lookup of a code finds a record whose rate is within 1e-9 of
\* the fetched rate, the pass leaves the code at once: no record changes (rate,
\* nominal, source, is_crypto and timestamp stay), no event is made, nothing is
\* sent to a subscriber or to the bus, whatever the fetched nominal and source.
C20_NoChangeFrame ==
    [][ \A r \in items :
          (/\ pc["api"] = "lookup"
           /\ todo["api"] # << >>
           /\ pc'["api"] # "lookup" \/ todo'["api"] # todo["api"]
           /\ r.code = Head(todo["api"])
           /\ ~Beyond(r.rate, combined["api"].v[r.code].rate))
          => /\ items' = items /\ clock' = clock
             /\ nEvents' = nEvents
             /\ delivered' = delivered
             /\ bus' = bus /\ published' = published
             /\ pc'["api"] \notin {"commit", "refresh", "send", "publish"}
             /\ todo'["api"] = Tail(todo["api"]) ]_vars

\* a pass fetched USD per 2 units from the bank, at a rate within epsilon of
\* the one a client had stored with nominal 1 and source "x", and has gone past
\* USD without an error: the record keeps its rate, nominal, source and
\* timestamp, and the only USD event is the one of its creation
C20_Witness ==
    /\ pc["api"] = "lookup" /\ clean["api"]
    /\ todo["api"] = << "BTC", "ETH" >>
    /\ combined["api"].v["USD"].nominal = 2
    /\ combined["api"].v["USD"].rate = Rate(90, 500000001)
    /\ combined["api"].v["USD"].source = PARSED_SOURCE
    /\ \E r \in items : /\ r.code = "USD" /\ r.nominal = 1 /\ r.source = "x"
                         /\ r.rate = Rate(90, 500000000)
                         /\ r.updated_at = 1
    /\ clock > 1
\* ----------------------------------------------------------------------- C21
\* the conversion rate the merge must use: the bank map's USD rate, or 80.0
BaseRate(rates) == IF HasKey(rates, "USD") THEN rates.v["USD"].rate ELSE Rate(80, 0)

\* m holds every entry of the bank's map, but for a code that is a crypto key of m
HoldsBank(m, rates) ==
    \A i \in 1..Len(rates.ks) :
        LET k == rates.ks[i]
        IN  /\ HasKey(m, k)
            /\ (~InCrypto(k) \/ m.v[k].source # CRYPTO_SOURCE) => m.v[k] = rates.v[k]

\* the prices Binance may have answered with
Prices == {r.price : r \in {a \in BinanceOutcomes : PriceFound(a)}}

\* C21: the merged map of either pipeline holds every entry of the bank's map
\* and the crypto entries, and each crypto rate is the symbol's price times the
\* bank map's USD rate, or times 80.0 when the bank map has no USD entry.
C21_MergeBase ==
    [][ /\ \A p \in Passes :
              (pc[p] = "fetch" /\ pc'[p] = "lookup" /\ upstream'[p] # None)
              => LET a == upstream'[p][1]
                     rates == fetch_cbr(a.cbr, MONEY)
                     m == combined'[p]
                 IN  /\ HoldsBank(m, rates)
                     /\ \A i \in 1..Len(CRYPTO_CODES) :
                           LET sym == CRYPTO_CODES[i]
                           IN  IF PriceFound(a.bin[sym])
                               THEN /\ HasKey(m, sym)
                                    /\ m.v[sym].rate
                                         = RateTimes(a.bin[sym].price, BaseRate(rates))
                               ELSE ~HasKey(m, sym)
        /\ (legacy.pc = "crypto" /\ legacy'.pc = "store")
           => LET rates == legacy.rates
                  m == legacy'.combined
              IN  /\ HoldsBank(m, rates)
                  /\ \A i \in 1..Len(CRYPTO_CODES) :
                        LET sym == CRYPTO_CODES[i]
                        IN  HasKey(m, sym)
                            => \E price \in Prices :
                                  m.v[sym].rate = RateTimes(price, BaseRate(rates)) ]_vars

\* poll_loop has merged a bank map without USD with a BTC price of 2: the BTC
\* rate is 16, the price times 8.0
C21_Witness ==
    /\ legacy.pc = "store"
    /\ ~HasKey(legacy.rates, "USD")
    /\ HasKey(legacy.combined, "BTC")
    /\ legacy.combined.v["BTC"].rate = Rate(16, 0)
\* ----------------------------------------------------------------------- C22
\* C22: a broadcast works on the registry as it was when it started. Sockets
\* connecting or disconnecting while it is suspended in a send change neither
\* its snapshot nor its progress; each of its sends goes to a socket of the
\* snapshot not tried before; it ends only when every socket of the snapshot
\* has been tried once, and then no socket whose send failed is registered.
C22_RegistrySafety ==
    [][ \A p \in {"loop", "sub"} :
          /\ (pc[p] # "send" /\ pc'[p] = "send")
             => snap'[p] = active /\ sent'[p] = {} /\ bad'[p] = {}
          /\ (pc[p] = "send" /\ active' # active /\ wsState' # wsState)
             => pc'[p] = "send" /\ snap'[p] = snap[p]
                /\ sent'[p] = sent[p] /\ bad'[p] = bad[p]
          /\ (pc[p] = "send" /\ pc'[p] = "send")
             => /\ snap'[p] = snap[p]
                /\ sent[p] \subseteq sent'[p] /\ bad[p] \subseteq bad'[p]
                /\ sent'[p] \cap bad'[p] = {}
                /\ (sent'[p] \cup bad'[p]) \subseteq snap[p]
                /\ Cardinality(sent'[p] \cup bad'[p])
                     <= Cardinality(sent[p] \cup bad[p]) + 1
                /\ \A w \in WS :
                      delivered'[w][payload[p].ev] # delivered[w][payload[p].ev]
                      => w \in sent'[p] \ sent[p]
          /\ (pc[p] = "send" /\ pc'[p] # "send")
             => LET left == snap[p] \ (sent[p] \cup bad[p])
                    e == payload[p].ev
                    failedNow == {w \in left : delivered'[w][e] = delivered[w][e]}
                IN  /\ Cardinality(left) = 1
                    /\ pc'[p] = AfterBroadcast(p)
                    /\ \A w \in left \ failedNow :
                          delivered'[w][e] = delivered[w][e] + 1
                    /\ \A w \in WS \ left : delivered'[w][e] = delivered[w][e]
                    /\ (bad[p] \cup failedNow) \cap active' = {} ]_vars

\* the pass's broadcast of the first event started with both sockets
\* registered and has sent to w1; w2 has disconnected since
C22_Witness ==
    /\ pc["loop"] = "send" /\ payload["loop"].ev = 1
    /\ snap["loop"] = {"w1", "w2"}
    /\ sent["loop"] = {"w1"} /\ bad["loop"] = {}
    /\ wsState["w2"] = "closed" /\ active = {"w1"}
    /\ delivered["w1"][1] = 1
\* ----------------------------------------------------------------------- C23
\* C23: whatever a step does (a commit that returns or raises, a cancellation
\* delivered in the middle of a pass), every stored record it changes carries
\* all of the update: the fetched rate, nominal and source, the crypto flag of
\* its code and the new timestamp; a cancellation or a failed commit changes
\* no record at all.
C23_NoPartialWrite ==
    [][ /\ \A r2 \in items' \ items :
              \A r \in {o \in items : o.id = r2.id} :
                  /\ pc["loop"] = "commit"
                  /\ Head(todo["loop"]) = r.code
                  /\ LET info == combined["loop"].v[r.code]
                     IN  /\ r2.rate = info.rate
                         /\ r2.nominal = info.nominal
                         /\ r2.source = info.source
                         /\ r2.is_crypto = InCrypto(r.code)
                         /\ r2.updated_at = clock'
                  /\ clock' = clock + 1
                  /\ r2.code = r.code /\ r2.title = r.title
                  /\ items' \ {r2} = items \ {r}
        /\ (cancelReq /\ ~cancelReq') => items' = items
        /\ faults' # faults => items' = items ]_vars

\* stop() cancelled the loop inside process_and_store with nothing failing,
\* after the pass had stored RUB: the pass is over, stop() still waits, and the
\* USD record a client had stored first, which the pass did not get to update,
\* has all of its own values
C23_Witness ==
    /\ pc["loop"] = "sleep" /\ task = "pending" /\ stopPc = "await" /\ ~cancelReq
    /\ faults = 0
    /\ \E r \in items : r.code = "RUB" /\ r.id = 2
    /\ \E r \in items : /\ r.code = "USD" /\ r.id = 1 /\ r.updated_at = 1
                         /\ r.rate = Rate(90, 500000000)
                         /\ r.nominal = 1 /\ r.source = "x" /\ ~r.is_crypto
\* ----------------------------------------------------------------------- C24
\* the messages on the bus that announce type t for code c
Announcing(t, c) ==
    {i \in 1..Len(bus) : /\ bus[i].json /\ bus[i].doc.type = t
                         /\ bus[i].doc.item # << >> /\ bus[i].doc.item.code = c}

\* C24: while nothing fails and every pass, scheduled or on-demand, fetches the
\* same map, each code is announced at most once as created and at most once
\* as updated, however the two passes interleave.
C24_OncePerDiff ==
    faults = 0 =>
        \A c \in {"RUB", "USD"} :
            /\ Cardinality(Announcing("created", c)) <= 1
            /\ Cardinality(Announcing("updated", c)) <= 1

\* both passes have updated the USD record a client had stored, to the same
\* values, and the subscriber has been sent both events; nothing has failed
C24_Witness ==
    /\ faults = 0
    /\ \E i, j \in Announcing("updated", "USD") :
          /\ i < j
          /\ bus[i].doc.item = bus[j].doc.item
          /\ delivered["w1"][bus[i].doc.ev] = 1
          /\ delivered["w1"][bus[j].doc.ev] = 1
\* ----------------------------------------------------------------------- C25
\* C25: a date's cached map, once stored, is never replaced, and a call that
\* finds its date in the cache returns that map without asking the bank,
\* however the calls of two threads and of poll_loop interleave.
C25_CacheAppendOnly ==
    [][ /\ \A d \in Dates :
              legacy.cache[d] # None => legacy'.cache[d] = legacy.cache[d]
        /\ \A t \in Threads :
              (legacy.calls[t].pc = "out" /\ legacy'.calls[t] # legacy.calls[t]
                 /\ legacy.cache[legacy'.calls[t].d] # None)
              => /\ legacy'.calls[t].pc = "out"
                 /\ legacy'.calls[t].ret = legacy.cache[legacy'.calls[t].d] ]_vars

\* both threads asked for d1 before either had stored it: t1 came back with the
\* fallback map, and the cache now holds the parsed map t2 stored over it
C25_Witness ==
    /\ legacy.calls["t1"].pc = "out" /\ legacy.calls["t1"].d = "d1"
    /\ legacy.calls["t2"].pc = "out" /\ legacy.calls["t2"].d = "d1"
    /\ legacy.calls["t1"].ret = Some(LegacyBase)
    /\ legacy.cache["d1"] = legacy.calls["t2"].ret
    /\ HasKey(legacy.cache["d1"][1], "USD")
\* ----------------------------------------------------------------------- C26
\* the loop tasks that have been created and have not ended
ActiveLoops ==
    (IF task = "pending" THEN 1 ELSE 0) + (IF stray.orphan THEN 1 ELSE 0)

\* C26: at any time at most one loop task of the Poller is running.
C26_SingleLoop == ActiveLoops <= 1

\* stop() has returned and start() has made a loop task, while the task that
\* start() made during stop()'s wait still runs
C26_Witness ==
    /\ stopPc = "idle"
    /\ task = "pending"
    /\ stray.orphan
    /\ pc["loop"] = "lookup"
\* ----------------------------------------------------------------------- C27
\* coroutine p leaves its lookup or its commit without the write having been
\* committed: the call raised, or the pass found nothing to write
LeavesUnwritten(p) ==
    \/ pc[p] = "lookup" /\ pc'[p] \notin {"lookup", "commit"}
    \/ pc[p] = "commit" /\ pc'[p] \notin {"commit", "refresh"}

\* C27: a pass or the bus handler goes into its broadcast (and a pass into its
\* publish) only from a commit that succeeded, holding the record it wrote; a
\* lookup or a commit that fails is followed by no delivery of that code or
\* message to a subscriber or to the bus.
C27_EventsFollowCommits ==
    [][ /\ \A p \in Passes :
              /\ LeavesUnwritten(p)
                 => /\ pc'[p] \notin {"send", "publish"}
                    /\ delivered' = delivered /\ bus' = bus
              /\ pc[p] \in {"send", "publish"}
                 => /\ payload[p].ev <= nEvents
                    /\ found[p] # None
                    /\ \E r \in items : r.id = found[p][1] /\ r.code = payload[p].item.code
        /\ LeavesUnwritten("sub")
           => pc'["sub"] = "idle" /\ delivered' = delivered ]_vars

\* the handler's lookup for another publisher's first message failed and
\* nothing was stored, yet the subscriber has been sent the message
C27_Witness ==
    /\ items = {}
    /\ faults = 1
    /\ nEvents = 1
    /\ pc["sub"] = "idle"
    /\ delivered["w1"][1] = 1
\* ----------------------------------------------------------------------- C28
\* a step of a bus handler, of this instance or of the second one
HandlerStep ==
    \/ pc'["sub"] # pc["sub"]
    \/ Len(peer'.inbox) < Len(peer.inbox)

\* C28: no step of a bus handler puts a message on the subject or leads the
\* handler to a publish; every change event is on the subject at most once,
\* exactly once after a publish that succeeded, and no message on the subject
\* is without its change event, so the messages never outnumber the events.
C28_NoFeedback ==
    [][ /\ HandlerStep
           => /\ published' = published
              /\ Len(bus') <= Len(bus)
              /\ Len(peer'.inbox) <= Len(peer.inbox)
              /\ pc'["sub"] \in {"idle", "lookup", "commit", "refresh", "send"}
        /\ \A e \in EvIds :
              /\ published'[e] <= 1
              /\ e > nEvents' => published'[e] = 0
        /\ (pc["loop"] = "publish" /\ pc'["loop"] # "publish" /\ faults' = faults)
           => published'[payload["loop"].ev] = 1 ]_vars

\* the first instance's pass stored RUB and published the event once; both
\* handlers have taken it, the second instance has stored it, and the subject
\* is empty again
C28_Witness ==
    /\ peer.on /\ peer.inbox = << >> /\ bus = << >>
    /\ pc["sub"] = "idle"
    /\ nEvents = 1 /\ published[1] = 1
    /\ \E r \in items : r.code = "RUB"
    /\ \E r \in peer.items : r.code = "RUB"

====
